---- MODULE Spec2Model ----
(***************************************************************************)
(* Stronghold: the monetized scan pipeline.                                *)
(*                                                                         *)
(* The model covers the payment gates in front of the scan handler         *)
(* (X402Middleware.RequirePayment, X402Middleware.Middleware with          *)
(* SettleAfterHandler, PaymentRouter.Route with the atomic payment state   *)
(* machine and the API-key path), the payment_transactions / accounts /    *)
(* usage_logs tables with their constraints and triggers, and the          *)
(* settlement worker.                                                      *)
(***************************************************************************)
EXTENDS Integers, Sequences, FiniteSets, TLC

\* ---------------------------------------------------------------- bounds
MaxConc == 2            \* request tasks that run concurrently
MaxNonce == 2           \* distinct payment nonces clients use
MaxRows == 2            \* rows payment_transactions holds at most
MaxRuns == 2            \* handler executions recorded per nonce
MaxTicks == 1           \* ticks of the clock
TickSeconds == 20       \* seconds per tick of the clock
MaxRetryAttempts == 2   \* WorkerConfig.MaxRetryAttempts as configured
BatchSize == 2          \* WorkerConfig.BatchSize as configured
ReservationTTL == 5     \* reservation ttl as configured, in seconds
MaxBalanceSteps == 4    \* initial balances are 0, 500, ..., 500*MaxBalanceSteps

\* ------------------------------------------------------ program constants
RoutePrice == 1000      \* price of /v1/scan/content in micro-USDC
UsdcScale == 1000000
BaseDelay == 5          \* seconds
MaxDelay == 300         \* seconds

Slots == 1..MaxConc
Nonces == 1..MaxNonce
NULL == -1

\* ------------------------------------------------------------- amounts
\* usdc.MicroUSDC.ToBigInt for a chain with 6 decimals: the micro amount itself
ToBigInt(m, decimals) ==
    IF decimals > 6 THEN m * (10 ^ (decimals - 6))
    ELSE IF decimals < 6 THEN m \div (10 ^ (6 - decimals))
    ELSE m

\* float64ToWei(amount): int64(amount * 1_000_000) multiplied by 1_000_000.
\* The argument is the price already scaled to micro-USDC (int64(amount*1e6)).
float64ToWei(priceMicro) == priceMicro * UsdcScale

\* amount the atomic payment middleware expects for the route
AtomicExpected == ToBigInt(RoutePrice, 6)
\* amount RequirePayment / Middleware expect for the route
LegacyExpected == float64ToWei(RoutePrice)

\* X-Payment headers clients send: a nonce and the amount of the envelope,
\* which is the price in chain units or the amount float64ToWei asks for
NoHeader == [nonce |-> 0, amount |-> 0]
Headers ==
    { [nonce |-> n, amount |-> a] : n \in Nonces, a \in {AtomicExpected, LegacyExpected} }

\* Authorization headers clients send
Tokens == {"none", "key", "unknownkey", "jwt"}

\* the request id the scan handler generates (a fresh uuid, never a
\* facilitator payment id)
RequestUUID == -2
\* the payment id the facilitator returns from /settle for a nonce
FacilitatorPaymentID(n) == n

VARIABLES
    cfgWallet,      \* X402Config.WalletAddress # ""
    now,            \* wall clock, seconds
    rq,             \* per task: the request being served
    resp,           \* the request answered by the last step, with its response
    rows,           \* payment_transactions, in insertion order
    facSettled,     \* payment headers the facilitator has settled
    handlerRuns,    \* per nonce: number of scan handler executions
    balance,        \* accounts.balance_usdc in micro-USDC
    deposited,      \* sum of the account's completed deposits
    creditPaid,     \* number of requests DeductBalance charged to credits
    account,        \* the account the API key belongs to
    keyRevoked,     \* api_keys.revoked_at IS NOT NULL
    usageLogs,      \* usage_logs rows (payment_method of each)
    wpc,            \* retry loop position
    wbatch,         \* payments the retry loop still has to process
    wcur,           \* payment the retry loop is settling
    epc,            \* expiration loop position
    stopCh,         \* Worker.stopCh is closed
    ctxDone,        \* the context given to Start is cancelled
    stopPc,         \* position of the caller of Worker.Stop
    scanning,       \* the proxy's Config.Scanning
    mitm,           \* the intercepted TLS connection and its current message
    certs,          \* CertCache.certs: per host the cached entry
    mu,             \* CertCache.mu: the holder of the write lock, the readers
    callers,        \* per goroutine: its position in GetCert
    evictPc,        \* position of the eviction goroutine
    certClock,      \* time.Now() as the certificate cache reads it
    nextCert,       \* the certificate the next CA.GenerateCert call makes
    minted,         \* per host: certificates generated since the host last left the cache
    returned,       \* per host: certificates GetCert returned since then
    discarded,      \* certificates generated by a caller that lost the insertion race
    lastEvict,      \* what the last eviction pass removed in each phase
    processed,      \* processed_webhook_events: the event ids recorded
    hooks,          \* per task: the webhook delivery being handled
    depositStatus,  \* deposits.status of the deposit the events are about
    applied,        \* per event id: times its side effect was applied
    scanner,        \* ScannerClient: the wallets set, the ScanContent calls made
    call,           \* the ScanContent call in progress: position and locals
    wire,           \* HTTP requests the call has sent, with the status of each answer
    http,           \* per HTTP client: the exchange that carries a payment
    bk              \* the retry loop's backoff check for one failed payment

vars == <<cfgWallet, now, rq, resp, rows, facSettled, handlerRuns, balance,
          deposited, creditPaid, account, keyRevoked, usageLogs, wpc, wbatch, wcur,
          epc, stopCh, ctxDone, stopPc, scanning, mitm, certs, mu, callers,
          evictPc, certClock, nextCert, minted, returned, discarded, lastEvict,
          processed, hooks, depositStatus, applied, scanner, call, wire, http,
          bk>>

\* the API server and its worker
apiVars == <<cfgWallet, now, rq, resp, account, deposited, epc, stopCh, ctxDone,
             stopPc, balance, creditPaid, keyRevoked, usageLogs, rows, facSettled,
             handlerRuns, wpc, wbatch, wcur>>
\* the proxy process
certVars == <<certs, mu, callers, evictPc, certClock, nextCert, minted, returned,
              discarded, lastEvict>>
\* the parts of the system a proxied message does not touch
hookVars == <<processed, hooks, depositStatus, applied>>
clientVars == <<scanner, call, wire>>
sideVars == <<certVars, hookVars, clientVars, http, bk>>
\* what the certificate cache / a webhook delivery / the scanner client
\* leaves alone
exceptCert == <<apiVars, scanning, mitm, hookVars, clientVars, http, bk>>
exceptHook == <<apiVars, scanning, mitm, certVars, clientVars, http, bk>>
exceptClient == <<apiVars, scanning, mitm, certVars, hookVars, http, bk>>
exceptHTTP == <<apiVars, scanning, mitm, certVars, hookVars, clientVars, bk>>
exceptBackoff == <<apiVars, scanning, mitm, certVars, hookVars, clientVars, http>>
proxyVars == <<scanning, mitm, sideVars>>
\* shutdown state of the worker
stopVars == <<epc, stopCh, ctxDone, stopPc>>
\* what neither a request nor an iteration of a worker loop changes
consts == <<cfgWallet, account, deposited, stopVars, proxyVars>>
keyVars == <<balance, creditPaid, keyRevoked, usageLogs>>
payVars == <<rows, facSettled, handlerRuns>>
workerVars == <<wpc, wbatch, wcur>>

IdleReq == [pc |-> "idle", gate |-> "none", hdr |-> NoHeader, auth |-> "none",
            row |-> 0, status |-> 0, body |-> 0, ran |-> FALSE,
            verify |-> "none", sawRow |-> FALSE, calledSettle |-> FALSE,
            settled |-> FALSE, paid |-> "none", payResp |-> 0, replay |-> FALSE,
            note |-> "none", bound |-> FALSE]

\* facilitator /verify was called for the request / answered valid:true
CalledVerify(q) == q.verify # "none"
Verified(q) == q.verify = "valid"

Accounts ==
    { [type |-> "b2b", status |-> "active", customer |-> TRUE],
      [type |-> "b2b", status |-> "active", customer |-> FALSE],
      [type |-> "b2c", status |-> "active", customer |-> FALSE],
      [type |-> "b2b", status |-> "suspended", customer |-> FALSE] }

\* ------------------------------------------------------------ proxy data
\* bodies of 1 MiB and more are not scanned
ScanCap == 1048576
\* body lengths a message may have
BodySizes == {0, 1024, ScanCap, ScanCap + 1}
\* Content-Type values a message may carry ("" when the header is absent)
ContentTypes ==
    {"", "text/html", "application/json; charset=utf-8", "image/png",
     "application/x-tar", "application/pdf"}
\* what a call of the scanner service can give: a verdict, or an error
\* (unreachable, timeout, non-200 answer, payment rejected)
ScanOutcomes == {"ALLOW", "WARN", "BLOCK", "error"}
\* values a scan type's action_on_warn / action_on_block may be set to
Actions == {"allow", "warn", "block"}

ScanningConfigs ==
    { [Content |-> [Enabled |-> e, ActionOnWarn |-> w, ActionOnBlock |-> b],
       FailOpen |-> f] : e \in BOOLEAN, w \in Actions, b \in Actions,
                          f \in BOOLEAN }

newTestConfig ==
    [Content |-> [Enabled |-> TRUE, ActionOnWarn |-> "warn",
                  ActionOnBlock |-> "block"],
     FailOpen |-> TRUE]

\* no connection; the fields describe the message a connection is working on
ClosedConn ==
    [pc |-> "closed", reqType |-> "", reqLen |-> 0, contentLength |-> 0,
     reqScan |-> "none", upstream |-> FALSE, respType |-> "", respLen |-> 0,
     respScan |-> "none", client |-> << >>]

\* ------------------------------------------------- certificate cache data
\* goroutines that call GetCert at the same time
MaxCallers == 2
\* hosts certificates are asked for
MaxHosts == 3
\* calls of CA.GenerateCert in one run
MaxCerts == 3
\* ticks of the clock the cache reads
MaxCertTicks == 2
\* CertCache.maxSize and CertCache.ttl (in ticks), scaled down as the tests do
maxSize == 2
ttl == 1

Callers == 1..MaxCallers
Hosts == 1..MaxHosts
\* a host without an entry in the map
NoEntry == [cert |-> 0, lastUsed |-> 0]
IdleCaller == [pc |-> "idle", host |-> 0, cert |-> 0, entry |-> 0, clean |-> FALSE]
\* nobody holds the mutex
Unlocked == [w |-> "none", r |-> {}]

\* the cache after NewCertCache
NewCertCache ==
    /\ certs = [h \in Hosts |-> NoEntry]
    /\ mu = Unlocked
    /\ callers = [g \in Callers |-> IdleCaller]
    /\ evictPc = "idle"
    /\ certClock = 0
    /\ nextCert = 1
    /\ minted = [h \in Hosts |-> 0]
    /\ returned = [h \in Hosts |-> {}]
    /\ discarded = {}
    /\ lastEvict = [expired |-> {}, oldest |-> {}]

\* ------------------------------------------------------- webhook data
\* webhook deliveries handled at the same time
MaxDeliveries == 2
Deliveries == 1..MaxDeliveries
\* the events the billing provider sends about one deposit: the id of the
\* event and the status of the onramp session
Events ==
    { [id |-> 1, status |-> "fulfillment_complete"],
      [id |-> 2, status |-> "rejected"],
      [id |-> 3, status |-> "fulfillment_processing"] }
EventIds == { e.id : e \in Events }
NoEvent == [id |-> 0, status |-> ""]
IdleHook == [pc |-> "idle", event |-> NoEvent, duplicate |-> FALSE,
             status |-> 0, didApply |-> FALSE]

\* the webhook handler and its tables before any delivery
NewStripeWebhookHandler ==
    /\ processed = {}
    /\ hooks = [d \in Deliveries |-> IdleHook]
    /\ depositStatus = "pending"
    /\ applied = [e \in EventIds |-> 0]

\* ------------------------------------------------------ scanner client data
\* ScanContent calls one scanner client makes
MaxScans == 2

\* networks a 402 answer may ask payment on
Networks == {"base", "solana"}

\* what the scanning API may answer to one request: no answer at all
\* (status 0), 200 with a body that decodes or not, 402 whose requirements
\* parse (for a network) or not, or another status
ServerResponses ==
    { [status |-> 0, network |-> "", wellFormed |-> FALSE] } \cup
    { [status |-> 200, network |-> "", wellFormed |-> b] : b \in BOOLEAN } \cup
    { [status |-> 402, network |-> n, wellFormed |-> TRUE] : n \in Networks } \cup
    { [status |-> 402, network |-> "", wellFormed |-> FALSE] } \cup
    { [status |-> 500, network |-> "", wellFormed |-> FALSE] }

IdleCall == [pc |-> "idle", paymentReq |-> "", paymentHeader |-> 0, envelopes |-> 0,
             result |-> FALSE, err |-> FALSE]

\* NewScannerClient: no wallet is set
NewScannerClient ==
    /\ scanner = [wallet |-> FALSE, solanaWallet |-> FALSE, scans |-> 0]
    /\ call = IdleCall
    /\ wire = << >>

\* ------------------------------------------------------ HTTP client data
\* redirects net/http follows before it gives up (10 in the library)
MaxRedirects == 2

\* the clients that send a payment: ScannerClient.httpClient (X-Payment
\* header), X402Middleware.httpClient and Worker.httpClient (payment in the
\* JSON body of /verify and /settle)
HTTPClients == {"scanner", "middleware", "worker"}

\* what a server answers
HTTPStatuses == {200, 301, 302, 303, 307, 308, 500}

IdleExchange == [pc |-> "idle", hops |-> 0, carries |-> FALSE, leaked |-> FALSE,
                 status |-> 0]

\* the clients as their constructors make them, before any request
NewHTTPClients == http = [c \in HTTPClients |-> IdleExchange]

\* ------------------------------------------------------ backoff data
\* settlement_attempts of the payments the backoff is computed for
MaxAttempts == 12

\* seconds since executed_at at the moment of the check
ElapsedSamples == {0, 4, 5, 9, 10, 19, 20, 160, 299, 300, 301}

NoBackoff == [pc |-> "idle", attempts |-> 0, elapsed |-> 0, backoff |-> 0, due |-> FALSE]

\* the API server after construction
InitServer ==
    /\ cfgWallet \in BOOLEAN
    /\ now = 0
    /\ rq = [s \in Slots |-> IdleReq]
    /\ resp = IdleReq
    /\ rows = << >>
    /\ facSettled = {}
    /\ handlerRuns = [n \in Nonces |-> 0]
    /\ balance \in { 500 * k : k \in 0..MaxBalanceSteps }
    /\ deposited = balance
    /\ creditPaid = 0
    /\ account \in Accounts
    /\ keyRevoked = FALSE
    /\ usageLogs = << >>
    /\ wpc = "idle"
    /\ wbatch = << >>
    /\ wcur = 0
    /\ epc = "idle"
    /\ stopCh = FALSE
    /\ ctxDone = FALSE
    /\ stopPc = "none"

Init ==
    /\ InitServer
    /\ scanning = newTestConfig
    /\ mitm = ClosedConn
    /\ NewCertCache
    /\ NewStripeWebhookHandler
    /\ NewScannerClient
    /\ NewHTTPClients
    /\ bk = NoBackoff

\* ------------------------------------------------------------ facilitator
\* /verify: "verify payment is valid and not already spent"; a non-200
\* answer is a transport error
VerifyOutcomes(h) ==
    IF h \in facSettled THEN {"invalid", "error"} ELSE {"valid", "invalid", "error"}

\* /settle: a payment settles at most once
SettleOutcomes(h) ==
    IF h \in facSettled THEN {"error"} ELSE {"ok", "error"}

\* ------------------------------------------------------------ scan handler
\* status codes ScanHandler.ScanContent answers with
HandlerCodes == {200, 500}

Is2xx(code) == code >= 200 /\ code < 300

\* X402Middleware.PaymentResponse: no header without a wallet address
PaymentResponse(old, paymentID) == IF cfgWallet THEN paymentID ELSE old

\* ScanHandler.ScanContent run for request q: a fresh result per execution;
\* on success it sets X-Payment-Response from the request id
ScanContent(q, code) ==
    [q EXCEPT !.ran = TRUE,
              !.status = code,
              !.body = IF q.hdr.nonce = 0 THEN 1 ELSE handlerRuns[q.hdr.nonce] + 1,
              !.payResp = IF code = 200 THEN PaymentResponse(@, RequestUUID) ELSE @]

\* bookkeeping of handler executions per nonce
CountRun(q) ==
    IF q.hdr.nonce = 0 THEN handlerRuns
    ELSE [handlerRuns EXCEPT ![q.hdr.nonce] = @ + 1]

CanRun(q) == IF q.hdr.nonce = 0 THEN TRUE ELSE handlerRuns[q.hdr.nonce] < MaxRuns

Respond(q, code) == [q EXCEPT !.pc = "done", !.status = code]

\* task s moves on with request record q; a finished request is answered
\* and the task is free again
Step(s, q) ==
    /\ rq' = [rq EXCEPT ![s] = IF q.pc = "done" THEN IdleReq ELSE q]
    /\ resp' = IF q.pc = "done" THEN q ELSE IdleReq

\* a request arrives at a gate: is there a row for this very header that is
\* settling or completed?
RowSettlingOrCompleted(h) ==
    \E i \in DOMAIN rows : rows[i].hdr = h /\ rows[i].status \in {"settling", "completed"}

\* a request is handed to the first free task
FirstFree(s) == rq[s].pc = "idle" /\ \A t \in Slots : t < s => rq[t].pc # "idle"

Arrival(gate, h, a) ==
    [IdleReq EXCEPT !.gate = gate, !.hdr = h, !.auth = a,
                    !.sawRow = RowSettlingOrCompleted(h)]

\* ---------------------------------------------- X402Middleware.verifyPayment
\* verifyPayment without the comparison of the amount
LocalChecksSkipAmount(h, expected) == cfgWallet

\* local checks of the envelope: the amount equals the expected amount and
\* the receiver is the configured wallet address (every envelope names the
\* service's wallet, so no envelope matches an empty WalletAddress)
LocalChecksPass(h, expected) == h.amount = expected /\ cfgWallet

\* ------------------------------------------------ payment_transactions store
\* payment_nonce without its UNIQUE constraint
PaymentNonceAnyValue(n) == TRUE

\* payment_nonce VARCHAR(128) UNIQUE NOT NULL
PaymentNonceUnique(n) == \A i \in DOMAIN rows : rows[i].nonce # n

\* CONSTRAINT payment_nonce_not_empty CHECK (payment_nonce != '')
PaymentNonceNotEmpty(n) == n # 0

\* lookup by payment_nonce: the row id, 0 if there is none
GetPaymentByNonce(n) ==
    IF \E i \in DOMAIN rows : rows[i].nonce = n
      THEN CHOOSE i \in DOMAIN rows : rows[i].nonce = n
      ELSE 0

\* INSERT of a reservation
NewPayment(h) ==
    [nonce |-> h.nonce, hdr |-> h, status |-> "reserved", attempts |-> 0,
     executedAt |-> NULL, expiresAt |-> now + ReservationTTL,
     result |-> 0, facId |-> 0, lastError |-> "none"]

\* UPDATE ... SET status = to WHERE id = id AND status IN from
Transition(rs, id, from, to) ==
    IF rs[id].status \in from THEN [rs EXCEPT ![id].status = to] ELSE rs

\* UPDATE ... SET status = 'executing' without the WHERE status = 'reserved'
MarkExecutingAnyStatus(id) == [rows EXCEPT ![id].status = "executing"]

MarkExecuting(id) == Transition(rows, id, {"reserved"}, "executing")

MarkSettling(rs, id) == Transition(rs, id, {"executing", "failed"}, "settling")

\* verify rejected the payment: reserved -> failed
FailVerification(id) ==
    IF rows[id].status = "reserved"
      THEN [rows EXCEPT ![id].status = "failed", ![id].lastError = "verify"]
      ELSE rows

\* handler ran and answered 2xx: result cached, executed_at recorded
RecordExecution(rs, id, body) ==
    IF rs[id].status = "executing"
      THEN [rs EXCEPT ![id].result = body, ![id].executedAt = now]
      ELSE rs

\* handler answered non-2xx: executing -> failed, no settlement
FailExecution(id) ==
    IF rows[id].status = "executing"
      THEN [rows EXCEPT ![id].status = "failed", ![id].executedAt = now,
                        ![id].lastError = "service"]
      ELSE rows

CompleteSettlement(rs, id, paymentID) ==
    IF rs[id].status = "settling"
      THEN [rs EXCEPT ![id].status = "completed", ![id].facId = paymentID]
      ELSE rs

FailSettlement(rs, id) ==
    IF rs[id].status = "settling"
      THEN [rs EXCEPT ![id].status = "failed", ![id].attempts = @ + 1,
                      ![id].lastError = "settle"]
      ELSE rs

\* UPDATE ... SET status = 'expired' WHERE expires_at < now
ExpireAnyStatus(rs) ==
    [i \in DOMAIN rs |->
        IF rs[i].expiresAt < now THEN [rs[i] EXCEPT !.status = "expired"] ELSE rs[i]]

\* UPDATE ... SET status = 'expired' WHERE status = 'reserved' AND expires_at < now
ExpireStaleReservations(rs) ==
    [i \in DOMAIN rs |->
        IF rs[i].status = "reserved" /\ rs[i].expiresAt < now
          THEN [rs[i] EXCEPT !.status = "expired"]
          ELSE rs[i]]

\* ------------------------------------------------------ API-key middleware
\* a lookup by hash that does not look at revoked_at
GetAPIKeyByHashAnyRow(a) == a = "key"

\* DB.GetAPIKeyByHash: WHERE key_hash = $1 AND revoked_at IS NULL finds a row
GetAPIKeyByHash(a) == a = "key" /\ ~keyRevoked

\* APIKeyMiddleware.Authenticate: 0 on success, else the error status
Authenticate(a) ==
    IF a = "none" THEN 401
    ELSE IF a \notin {"key", "unknownkey"} THEN 401
    ELSE IF ~GetAPIKeyByHash(a) THEN 401
    ELSE IF account.type # "b2b" THEN 403
    ELSE IF account.status # "active" THEN 403
    ELSE 0

\* Route's test for an API key: Bearer token longer than 8 starting sk_live_
LooksLikeAPIKey(a) == a \in {"key", "unknownkey"}

\* ----------------------------------------- gate: X402Middleware.RequirePayment
\* (the gate ScanHandler.RegisterRoutes installs on the scan routes)
RequirePayment(s, h, a) ==
    /\ FirstFree(s)
    /\ LET q == Arrival("RequirePayment", h, a) IN
       IF ~cfgWallet
         THEN Step(s, [q EXCEPT !.pc = "handler"])
       ELSE IF h = NoHeader
         THEN Step(s, Respond(q, 402))
       ELSE IF ~LocalChecksPass(h, LegacyExpected)
         THEN Step(s, Respond(q, 402))
       ELSE \E v \in VerifyOutcomes(h) :
              IF v = "valid"
                THEN Step(s, [q EXCEPT !.pc = "handler", !.verify = v, !.paid = "x402"])
                ELSE Step(s, [Respond(q, 402) EXCEPT !.verify = v])
    /\ UNCHANGED <<consts, keyVars, payVars, workerVars, now>>

\* the route handler behind RequirePayment
RequirePaymentHandler(s, code) ==
    /\ rq[s].pc = "handler"
    /\ rq[s].gate = "RequirePayment"
    /\ CanRun(rq[s])
    /\ Step(s, [ScanContent(rq[s], code) EXCEPT !.pc = "done"])
    /\ handlerRuns' = CountRun(rq[s])
    /\ UNCHANGED <<consts, keyVars, rows, facSettled, workerVars, now>>

\* ------------- gate: X402Middleware.Middleware with SettleAfterHandler
Middleware(s, h, a) ==
    /\ FirstFree(s)
    /\ LET q == Arrival("Middleware", h, a) IN
       IF ~cfgWallet
         THEN Step(s, [q EXCEPT !.pc = "handler"])
       ELSE IF h = NoHeader
         THEN Step(s, Respond(q, 402))
       ELSE IF ~LocalChecksPass(h, LegacyExpected)
         THEN Step(s, Respond(q, 402))
       ELSE \E v \in VerifyOutcomes(h) :
              IF v = "valid"
                THEN Step(s, [q EXCEPT !.pc = "handler", !.verify = v, !.paid = "x402"])
                ELSE Step(s, [Respond(q, 402) EXCEPT !.verify = v])
    /\ UNCHANGED <<consts, keyVars, payVars, workerVars, now>>

\* SettleAfterHandler, first half: c.Next() runs the handler; a payment is
\* settled only if Middleware stored it in Locals and the response is 2xx
SettleAfterHandlerNext(s, code) ==
    /\ rq[s].pc = "handler"
    /\ rq[s].gate = "Middleware"
    /\ CanRun(rq[s])
    /\ LET q == ScanContent(rq[s], code) IN
       IF Verified(q) /\ Is2xx(code)
         THEN Step(s, [q EXCEPT !.pc = "settle"])
         ELSE Step(s, [q EXCEPT !.pc = "done"])
    /\ handlerRuns' = CountRun(rq[s])
    /\ UNCHANGED <<consts, keyVars, rows, facSettled, workerVars, now>>

\* SettleAfterHandler, second half: settlePayment; a failure is only printed
SettleAfterHandlerSettle(s) ==
    /\ rq[s].pc = "settle"
    /\ rq[s].gate = "Middleware"
    /\ \E o \in SettleOutcomes(rq[s].hdr) :
         IF o = "ok"
           THEN /\ Step(s, [rq[s] EXCEPT !.pc = "done", !.calledSettle = TRUE,
                                         !.settled = TRUE,
                                         !.payResp = PaymentResponse(@, FacilitatorPaymentID(rq[s].hdr.nonce))])
                /\ facSettled' = facSettled \cup {rq[s].hdr}
           ELSE /\ Step(s, [rq[s] EXCEPT !.pc = "done", !.calledSettle = TRUE])
                /\ facSettled' = facSettled
    /\ UNCHANGED <<consts, keyVars, rows, handlerRuns, workerVars, now>>

\* --------------------------------------------- gate: PaymentRouter.Route
\* the table has room for the reservation a request with header h may insert
RoomFor(h) ==
    \/ h = NoHeader
    \/ GetPaymentByNonce(h.nonce) # 0
    \/ Len(rows) + Cardinality({ t \in Slots : rq[t].pc = "insert" }) < MaxRows

Route(s, h, a) ==
    /\ FirstFree(s)
    /\ RoomFor(h)
    /\ LET q == Arrival("Route", h, a) IN
       IF h # NoHeader
         THEN \* AtomicPayment, reserve: parse, local checks, lookup by nonce
              IF ~LocalChecksPass(h, AtomicExpected)
                THEN Step(s, Respond(q, 402))
              ELSE LET id == GetPaymentByNonce(h.nonce) IN
                IF id # 0 /\ rows[id].status \in {"completed", "settling"}
                  THEN Step(s, [Respond(q, 200) EXCEPT !.body = rows[id].result,
                                                       !.replay = TRUE, !.row = id])
                ELSE IF id # 0 /\ rows[id].status \in {"reserved", "executing"}
                  THEN Step(s, [Respond(q, 409) EXCEPT !.note = "in_flight"])
                ELSE Step(s, [q EXCEPT !.pc = "insert"])
       ELSE IF LooksLikeAPIKey(a)
         THEN \* handleAPIKeyPayment: Authenticate
              LET e == Authenticate(a) IN
              IF e # 0 THEN Step(s, Respond(q, e))
              ELSE \* c.Locals("account_id", ...), c.Locals("api_key_id", ...)
                   Step(s, [q EXCEPT !.pc = "deduct", !.bound = TRUE])
       ELSE Step(s, Respond(q, 402))
    /\ UNCHANGED <<consts, keyVars, payVars, workerVars, now>>

\* ------------------------------------------- AtomicPayment (reserve-execute-settle)
\* reserve: INSERT the reservation; the loser of a race on the nonce gets 409
AtomicReserve(s) ==
    /\ rq[s].pc = "insert"
    /\ LET h == rq[s].hdr IN
       IF PaymentNonceUnique(h.nonce) /\ PaymentNonceNotEmpty(h.nonce)
         THEN /\ rows' = Append(rows, NewPayment(h))
              /\ Step(s, [rq[s] EXCEPT !.pc = "verify", !.row = Len(rows) + 1])
         ELSE /\ rows' = rows
              /\ Step(s, [Respond(rq[s], 409) EXCEPT !.note = "unique_violation"])
    /\ UNCHANGED <<consts, keyVars, facSettled, handlerRuns, workerVars, now>>

\* reserve: facilitator /verify; valid:false fails the row and answers 402,
\* a transport error answers 500
AtomicVerify(s) ==
    /\ rq[s].pc = "verify"
    /\ \E v \in VerifyOutcomes(rq[s].hdr) :
         IF v = "valid"
           THEN /\ Step(s, [rq[s] EXCEPT !.pc = "execute", !.verify = v, !.paid = "x402"])
                /\ rows' = rows
         ELSE IF v = "invalid"
           THEN /\ Step(s, [Respond(rq[s], 402) EXCEPT !.verify = v])
                /\ rows' = FailVerification(rq[s].row)
         ELSE /\ Step(s, [Respond(rq[s], 500) EXCEPT !.verify = v])
              /\ rows' = rows
    /\ UNCHANGED <<consts, keyVars, facSettled, handlerRuns, workerVars, now>>

\* execute: reserved -> executing; a reservation that is no longer reserved
\* is not executed
AtomicExecute(s) ==
    /\ rq[s].pc = "execute"
    /\ rows' = MarkExecuting(rq[s].row)
    /\ IF rows[rq[s].row].status = "reserved"
         THEN Step(s, [rq[s] EXCEPT !.pc = "handler"])
         ELSE Step(s, [Respond(rq[s], 409) EXCEPT !.note = "not_reserved"])
    /\ UNCHANGED <<consts, keyVars, facSettled, handlerRuns, workerVars, now>>

\* execute: the handler runs; 2xx caches the result and moves to settling,
\* anything else fails the row without settlement
AtomicHandler(s, code) ==
    /\ rq[s].pc = "handler"
    /\ rq[s].gate = "Route"
    /\ rq[s].hdr # NoHeader
    /\ CanRun(rq[s])
    /\ LET q == ScanContent(rq[s], code)
           id == rq[s].row IN
       IF Is2xx(code)
         THEN /\ rows' = MarkSettling(RecordExecution(rows, id, q.body), id)
              /\ Step(s, [q EXCEPT !.pc = "settle"])
         ELSE /\ rows' = FailExecution(id)
              /\ Step(s, [q EXCEPT !.pc = "done"])
    /\ handlerRuns' = CountRun(rq[s])
    /\ UNCHANGED <<consts, keyVars, facSettled, workerVars, now>>

\* settle: facilitator /settle; the handler's response is returned regardless
AtomicSettle(s) ==
    /\ rq[s].pc = "settle"
    /\ rq[s].gate = "Route"
    /\ LET h == rq[s].hdr
           id == rq[s].row IN
       \E o \in SettleOutcomes(h) :
         IF o = "ok"
           THEN /\ rows' = CompleteSettlement(rows, id, FacilitatorPaymentID(h.nonce))
                /\ facSettled' = facSettled \cup {h}
                /\ Step(s, [rq[s] EXCEPT !.pc = "done", !.calledSettle = TRUE,
                                         !.settled = TRUE,
                                         !.payResp = FacilitatorPaymentID(h.nonce)])
           ELSE /\ rows' = FailSettlement(rows, id)
                /\ facSettled' = facSettled
                /\ Step(s, [rq[s] EXCEPT !.pc = "done", !.calledSettle = TRUE])
    /\ UNCHANGED <<consts, keyVars, handlerRuns, workerVars, now>>

\* ------------------------------------------ PaymentRouter.handleAPIKeyPayment
\* accounts without the CHECK on balance_usdc
accounts_balance_unchecked(b) == TRUE

\* CONSTRAINT accounts_balance_non_negative CHECK (balance_usdc >= 0)
accounts_balance_non_negative(b) == b >= 0

\* an UPDATE without the condition balance >= P
DeductBalanceAnyBalance(b, price) == TRUE

\* UPDATE accounts SET balance = balance - P WHERE id = A AND balance >= P:
\* does the statement find the row?
DeductBalanceOK(b, price) == b >= price

\* Meter.ReportUsage: the tick reaches the billing provider, the call fails,
\* or no meter is configured
MeterOutcomes == {"reported", "failed", "nil"}

DeductBalance(s, meter) ==
    /\ rq[s].pc = "deduct"
    /\ IF DeductBalanceOK(balance, RoutePrice)
         THEN /\ balance' = balance - RoutePrice
              /\ creditPaid' = creditPaid + 1
              /\ Step(s, [rq[s] EXCEPT !.pc = "log", !.paid = "credits"])
       ELSE IF ~account.customer
         THEN /\ UNCHANGED <<balance, creditPaid>>
              /\ Step(s, [Respond(rq[s], 402) EXCEPT !.note = "insufficient_credits"])
       ELSE /\ UNCHANGED <<balance, creditPaid>>
            /\ Step(s, [rq[s] EXCEPT !.pc = "log", !.paid = "metered", !.note = meter])
    /\ UNCHANGED <<consts, keyRevoked, usageLogs, payVars, workerVars, now>>

\* trigger deduct_account_balance_on_usage, AFTER INSERT ON usage_logs:
\* the balance after a usage_logs row with the given cost is inserted
deduct_account_balance_on_usage(b, cost) == b - cost

\* PaymentRouter.logUsage: INSERT INTO usage_logs with cost = price; the
\* trigger runs in the same statement, and a violated CHECK aborts the insert
\* (the error is logged and the request goes on)
logUsage(s) ==
    /\ rq[s].pc = "log"
    /\ LET b == deduct_account_balance_on_usage(balance, RoutePrice) IN
       IF accounts_balance_non_negative(b)
         THEN /\ balance' = b
              /\ usageLogs' = Append(usageLogs, rq[s].paid)
         ELSE UNCHANGED <<balance, usageLogs>>
    /\ Step(s, [rq[s] EXCEPT !.pc = "handler"])
    /\ UNCHANGED <<consts, creditPaid, keyRevoked, payVars, workerVars, now>>

\* c.Next() after the API-key gate
APIKeyHandler(s, code) ==
    /\ rq[s].pc = "handler"
    /\ rq[s].gate = "Route"
    /\ rq[s].hdr = NoHeader
    /\ Step(s, [ScanContent(rq[s], code) EXCEPT !.pc = "done"])
    /\ UNCHANGED <<consts, keyVars, payVars, workerVars, now>>

\* DB.RevokeAPIKey
RevokeAPIKey ==
    /\ ~keyRevoked
    /\ keyRevoked' = TRUE
    /\ UNCHANGED <<consts, balance, creditPaid, usageLogs, payVars, workerVars, now, rq>>
    /\ resp' = IdleReq

\* ------------------------------------------------------- settlement worker
\* Worker.calculateBackoff: the loop body applied from step i with delay d
RECURSIVE BackoffLoop(_, _, _)
BackoffLoop(i, attempts, d) ==
    IF i < attempts
      THEN IF d * 2 > MaxDelay THEN MaxDelay
           ELSE BackoffLoop(i + 1, attempts, d * 2)
      ELSE d

\* a backoff that doubles without a cap
calculateBackoffNoCap(attempts) == BaseDelay * 2^attempts

calculateBackoff(attempts) == BackoffLoop(0, attempts, BaseDelay)

\* SELECT ... WHERE status = 'failed' AND settlement_attempts < max
PendingIds(maxAttempts) ==
    { i \in DOMAIN rows : rows[i].status = "failed" /\ rows[i].attempts < maxAttempts }

RECURSIVE SeqOfIds(_)
SeqOfIds(S) ==
    IF S = {} THEN << >>
    ELSE LET m == CHOOSE x \in S : \A y \in S : x <= y IN
         <<m>> \o SeqOfIds(S \ {m})

\* ... LIMIT batchSize, each payment as it is at the time of the query, with
\* its index in the slice
GetPendingSettlements(maxAttempts, batchSize) ==
    LET all == SeqOfIds(PendingIds(maxAttempts))
        ids == IF Len(all) > batchSize THEN SubSeq(all, 1, batchSize) ELSE all IN
    [k \in DOMAIN ids |->
        [id |-> ids[k], attempts |-> rows[ids[k]].attempts,
         executedAt |-> rows[ids[k]].executedAt, hdr |-> rows[ids[k]].hdr,
         idx |-> k]]

\* retryFailedSettlements asking for payments with one attempt more than
\* MaxRetryAttempts allows
RetryTickOneMore ==
    /\ wpc = "idle"
    /\ LET payments == GetPendingSettlements(MaxRetryAttempts + 1, BatchSize) IN
       /\ Len(payments) > 0
       /\ wbatch' = payments
       /\ wpc' = "batch"
    /\ UNCHANGED <<consts, keyVars, payVars, wcur, now, rq>>
    /\ resp' = IdleReq

\* runRetryLoop, ticker case: retryFailedSettlements fetches its batch
RetryTick ==
    /\ wpc = "idle"
    /\ LET payments == GetPendingSettlements(MaxRetryAttempts, BatchSize) IN
       /\ Len(payments) > 0
       /\ wbatch' = payments
       /\ wpc' = "batch"
    /\ UNCHANGED <<consts, keyVars, payVars, wcur, now, rq>>
    /\ resp' = IdleReq

\* shutdown is signalled to the loops: stopCh is closed or ctx is done
Signalled == stopCh \/ ctxDone

\* the process after it was started: no request in flight, Worker.Start
\* has begun both loops, nobody has called Stop
Started ==
    /\ rq' = [s \in Slots |-> IdleReq]
    /\ resp' = IdleReq
    /\ wpc' = "idle"
    /\ wbatch' = << >>
    /\ wcur' = 0
    /\ epc' = "idle"
    /\ stopCh' = FALSE
    /\ ctxDone' = FALSE
    /\ stopPc' = "none"

\* time.Since(*payment.ExecutedAt) with ExecutedAt nil: the goroutine
\* panics and the process dies; requests in flight are dropped and the
\* process is started again
RetryPanic ==
    /\ wpc = "batch"
    /\ Len(wbatch) > 0
    /\ ~Signalled
    /\ Head(wbatch).executedAt = NULL
    /\ Started
    /\ UNCHANGED <<cfgWallet, proxyVars, account, deposited, keyVars, payVars, now>>

\* retryFailedSettlements, one iteration up to the facilitator call: backoff
\* check, then MarkSettling
RetryNext ==
    /\ wpc = "batch"
    /\ IF Len(wbatch) = 0
         THEN /\ wpc' = "idle"
              /\ UNCHANGED <<wbatch, wcur, rows>>
       ELSE IF Signalled
         THEN \* select at the head of the iteration: ctx.Done or stopCh, return
              /\ wpc' = "idle"
              /\ wbatch' = << >>
              /\ UNCHANGED <<wcur, rows>>
       ELSE LET payment == Head(wbatch) IN
         /\ payment.executedAt # NULL
         /\ wbatch' = Tail(wbatch)
         /\ IF now - payment.executedAt < calculateBackoff(payment.attempts)
              THEN UNCHANGED <<wpc, wcur, rows>>
            ELSE IF rows[payment.id].status \notin {"executing", "failed"}
              THEN UNCHANGED <<wpc, wcur, rows>>
            ELSE /\ rows' = MarkSettling(rows, payment.id)
                 /\ wcur' = payment.id
                 /\ wpc' = "settle"
    /\ UNCHANGED <<consts, keyVars, facSettled, handlerRuns, now, rq>>
    /\ resp' = IdleReq

\* retryFailedSettlements, rest of the iteration: settlePayment, then
\* FailSettlement or CompleteSettlement
RetrySettle ==
    /\ wpc = "settle"
    /\ LET h == rows[wcur].hdr IN
       \E o \in SettleOutcomes(h) :
         IF o = "ok"
           THEN /\ rows' = CompleteSettlement(rows, wcur, FacilitatorPaymentID(h.nonce))
                /\ facSettled' = facSettled \cup {h}
           ELSE /\ rows' = FailSettlement(rows, wcur)
                /\ facSettled' = facSettled
    /\ wpc' = "batch"
    /\ wcur' = 0
    /\ UNCHANGED <<consts, keyVars, handlerRuns, wbatch, now, rq>>
    /\ resp' = IdleReq

\* runExpirationLoop, ticker case: Worker.expireStaleReservations
expireStaleReservations ==
    /\ epc = "idle"
    /\ rows' = ExpireStaleReservations(rows)
    /\ rows' # rows
    /\ UNCHANGED <<consts, keyVars, facSettled, handlerRuns, workerVars, now, rq>>
    /\ resp' = IdleReq

\* runRetryLoop: the select takes ctx.Done or stopCh and the loop returns
RetryLoopExit ==
    /\ wpc = "idle"
    /\ Signalled
    /\ wpc' = "returned"
    /\ UNCHANGED <<cfgWallet, proxyVars, account, deposited, keyVars, payVars, wbatch, wcur,
                   epc, stopCh, ctxDone, stopPc, now, rq>>
    /\ resp' = IdleReq

\* runExpirationLoop: the select takes ctx.Done or stopCh and the loop returns
ExpirationLoopExit ==
    /\ epc = "idle"
    /\ Signalled
    /\ epc' = "returned"
    /\ UNCHANGED <<cfgWallet, proxyVars, account, deposited, keyVars, payVars, workerVars,
                   stopCh, ctxDone, stopPc, now, rq>>
    /\ resp' = IdleReq

\* Worker.Stop, first half: close(w.stopCh), then wait on the wait group
Stop ==
    /\ stopPc = "none"
    /\ stopCh' = TRUE
    /\ stopPc' = "waiting"
    /\ UNCHANGED <<cfgWallet, proxyVars, account, deposited, keyVars, payVars, workerVars,
                   epc, ctxDone, now, rq>>
    /\ resp' = IdleReq

\* Worker.Stop returning without w.wg.Wait()
StopReturnNoWait ==
    /\ stopPc = "waiting"
    /\ stopPc' = "returned"
    /\ UNCHANGED <<cfgWallet, proxyVars, account, deposited, keyVars, payVars, workerVars,
                   epc, stopCh, ctxDone, now, rq>>
    /\ resp' = IdleReq

\* Worker.Stop, second half: w.wg.Wait() returns once both goroutines called Done
StopReturn ==
    /\ stopPc = "waiting"
    /\ wpc = "returned"
    /\ epc = "returned"
    /\ stopPc' = "returned"
    /\ UNCHANGED <<cfgWallet, proxyVars, account, deposited, keyVars, payVars, workerVars,
                   epc, stopCh, ctxDone, now, rq>>
    /\ resp' = IdleReq

\* the context given to Worker.Start is cancelled
Cancel ==
    /\ ~ctxDone
    /\ ctxDone' = TRUE
    /\ UNCHANGED <<cfgWallet, proxyVars, account, deposited, keyVars, payVars, workerVars,
                   epc, stopCh, stopPc, now, rq>>
    /\ resp' = IdleReq

\* the process stops at any point (shutdown or kill) and is started again;
\* the tables stay as they are
Restart ==
    /\ Started
    /\ UNCHANGED <<cfgWallet, proxyVars, account, deposited, keyVars, payVars, now>>

\* ------------------------------------------------------------ environment
Tick ==
    /\ now < MaxTicks * TickSeconds
    /\ now' = now + TickSeconds
    /\ UNCHANGED <<consts, keyVars, payVars, workerVars, rq>>
    /\ resp' = IdleReq

\* what a client may send: X-Payment, or Authorization, or neither
PaymentInputs == { <<h, "none">> : h \in Headers \cup {NoHeader} }
KeyInputs == { <<NoHeader, a>> : a \in Tokens }

\* requests that pay with X-Payment at the payment router, the settlement
\* worker and the clock
NextPayment ==
    \/ \E s \in Slots, in \in PaymentInputs : Route(s, in[1], in[2])
    \/ \E s \in Slots : AtomicReserve(s)
    \/ \E s \in Slots : AtomicVerify(s)
    \/ \E s \in Slots : AtomicExecute(s)
    \/ \E s \in Slots, code \in HandlerCodes : AtomicHandler(s, code)
    \/ \E s \in Slots : AtomicSettle(s)
    \/ RetryTick
    \/ RetryPanic
    \/ RetryNext
    \/ RetrySettle
    \/ expireStaleReservations
    \/ Tick

\* requests at the gates of X402Middleware
NextLegacy ==
    \/ \E s \in Slots, in \in PaymentInputs : RequirePayment(s, in[1], in[2])
    \/ \E s \in Slots, code \in HandlerCodes : RequirePaymentHandler(s, code)
    \/ \E s \in Slots, in \in PaymentInputs : Middleware(s, in[1], in[2])
    \/ \E s \in Slots, code \in HandlerCodes : SettleAfterHandlerNext(s, code)
    \/ \E s \in Slots : SettleAfterHandlerSettle(s)

\* requests that authenticate with an API key
NextKey ==
    \/ \E s \in Slots, in \in KeyInputs : Route(s, in[1], in[2])
    \/ \E s \in Slots, meter \in MeterOutcomes : DeductBalance(s, meter)
    \/ \E s \in Slots : logUsage(s)
    \/ \E s \in Slots, code \in HandlerCodes : APIKeyHandler(s, code)
    \/ RevokeAPIKey

InitPayment ==
    /\ Init
    /\ balance = 0
    /\ account = [type |-> "b2b", status |-> "active", customer |-> FALSE]

InitKey ==
    /\ Init
    /\ cfgWallet = TRUE

Spec == InitPayment /\ [][NextPayment]_vars

SpecKey == InitKey /\ [][NextKey]_vars

SpecLegacy == InitPayment /\ [][NextLegacy]_vars

\* the task that serves requests when they are served one at a time
GateSlots == {1}

\* requests whose envelope carries the amount the payment router expects
WorkerInputs == { in \in PaymentInputs : in[1].amount = AtomicExpected }

\* requests that pay with X-Payment at the payment router, served one at a
\* time, the settlement worker with its shutdown, restarts of the process
\* and the clock
NextWorker ==
    \/ \E s \in GateSlots, in \in WorkerInputs : Route(s, in[1], in[2])
    \/ \E s \in GateSlots : AtomicReserve(s)
    \/ \E s \in GateSlots : AtomicVerify(s)
    \/ \E s \in GateSlots : AtomicExecute(s)
    \/ \E s \in GateSlots, code \in HandlerCodes : AtomicHandler(s, code)
    \/ \E s \in GateSlots : AtomicSettle(s)
    \/ RetryTick
    \/ RetryPanic
    \/ RetryNext
    \/ RetrySettle
    \/ expireStaleReservations
    \/ RetryLoopExit
    \/ ExpirationLoopExit
    \/ Stop
    \/ StopReturn
    \/ Cancel
    \/ Restart
    \/ Tick

\* the ticker fires, database and facilitator calls return (the http client
\* has a timeout), a select with several ready cases takes each of them
\* sooner or later, and a panic kills the process
FairWorker ==
    /\ WF_vars(RetryTick)
    /\ WF_vars(RetryPanic)
    /\ WF_vars(RetryNext)
    /\ WF_vars(RetrySettle)
    /\ WF_vars(expireStaleReservations)
    /\ SF_vars(RetryLoopExit)
    /\ SF_vars(ExpirationLoopExit)
    /\ WF_vars(StopReturn)

SpecWorker == InitPayment /\ [][NextWorker]_vars /\ FairWorker

\* every kind of request at every gate, served one at a time, without the
\* background worker
GateInputs ==
    { in \in PaymentInputs \cup KeyInputs : in[1].nonce \in {0, 1} }

NextGate ==
    \/ \E s \in GateSlots, in \in GateInputs : RequirePayment(s, in[1], in[2])
    \/ \E s \in GateSlots, code \in HandlerCodes : RequirePaymentHandler(s, code)
    \/ \E s \in GateSlots, in \in GateInputs : Middleware(s, in[1], in[2])
    \/ \E s \in GateSlots, code \in HandlerCodes : SettleAfterHandlerNext(s, code)
    \/ \E s \in GateSlots : SettleAfterHandlerSettle(s)
    \/ \E s \in GateSlots, in \in GateInputs : Route(s, in[1], in[2])
    \/ \E s \in GateSlots : AtomicReserve(s)
    \/ \E s \in GateSlots : AtomicVerify(s)
    \/ \E s \in GateSlots : AtomicExecute(s)
    \/ \E s \in GateSlots, code \in HandlerCodes : AtomicHandler(s, code)
    \/ \E s \in GateSlots : AtomicSettle(s)
    \/ \E s \in GateSlots, meter \in MeterOutcomes : DeductBalance(s, meter)
    \/ \E s \in GateSlots : logUsage(s)
    \/ \E s \in GateSlots, code \in HandlerCodes : APIKeyHandler(s, code)
    \/ RevokeAPIKey

SpecGate == Init /\ [][NextGate]_vars

\* ================================================================== proxy
contains(s, substr) ==
    /\ Len(s) >= Len(substr)
    /\ \/ s = substr
       \/ /\ Len(s) > 0
          /\ \E i \in 0..(Len(s) - Len(substr)) :
                SubSeq(s, i + 1, i + Len(substr)) = substr

scannableTypes ==
    {"text/html", "text/plain", "text/markdown", "application/json",
     "application/xml", "text/xml", "application/javascript",
     "text/javascript", "text/css"}

ShouldScanContentType(contentType) ==
    \E t \in scannableTypes : contains(contentType, t)

binaryTypes ==
    {"image/", "video/", "audio/", "application/octet-stream",
     "application/pdf", "application/zip", "application/gzip",
     "application/x-"}

IsBinaryContentType(contentType) ==
    \E t \in binaryTypes : contains(contentType, t)

\* a nil *ScanResult
NilResult == [Decision |-> "", Reason |-> ""]

\* the ScanResult the scanner service answers with
ScannerResult(outcome) ==
    [Decision |-> outcome,
     Reason |-> CASE outcome = "BLOCK" -> "Prompt injection detected"
                  [] outcome = "WARN" -> "Suspicious content"
                  [] OTHER -> ""]

\* MITMHandler.scanContent, given what the scanner call gives
scanContent(outcome) ==
    IF outcome = "error"
    THEN IF scanning.FailOpen
         THEN NilResult
         ELSE [Decision |-> "BLOCK",
               Reason |-> "Scan failed - blocking for safety"]
    ELSE ScannerResult(outcome)

\* the action configured for a decision
getAction(decision, config) ==
    CASE decision = "BLOCK" -> config.ActionOnBlock
      [] decision = "WARN" -> config.ActionOnWarn
      [] OTHER -> "allow"

\* what sendBlockResponse writes to the client: headers ("" when absent) and
\* the keys of the JSON body
sendBlockResponse(result) ==
    [StatusCode |-> 403, Decision |-> result.Decision, Reason |-> result.Reason,
     Action |-> "", Proxy |-> "", json |-> {"error", "reason", "url"},
     bytes |-> 0]

\* the upstream's response as proxyHTTPS writes it to the client
ForwardedResponse(scanResult, n) ==
    [StatusCode |-> 200, Decision |-> scanResult.Decision,
     Reason |-> scanResult.Reason, Action |-> "", Proxy |-> "mitm",
     json |-> {}, bytes |-> n]

\* HandleTLS: the handshakes succeed and proxyHTTPS starts
HandleTLS ==
    /\ mitm.pc = "closed"
    /\ mitm' = [ClosedConn EXCEPT !.pc = "read"]
    /\ UNCHANGED <<cfgWallet, now, rq, resp, account, deposited, stopVars,
                   keyVars, payVars, workerVars, scanning, sideVars>>

\* proxyHTTPS: http.ReadRequest gives the next request; cl is its
\* Content-Length, -1 when the body is chunked
proxyHTTPSReadRequest(ct, n, cl) ==
    /\ mitm.pc = "read"
    /\ cl = n \/ (cl = -1 /\ n > 0)
    /\ mitm' = [ClosedConn EXCEPT !.pc = "request", !.reqType = ct,
                                  !.reqLen = n, !.contentLength = cl]
    /\ UNCHANGED <<cfgWallet, now, rq, resp, account, deposited, stopVars,
                   keyVars, payVars, workerVars, scanning, sideVars>>

\* proxyHTTPS: http.ReadRequest fails (EOF, reset, deadline)
proxyHTTPSReadError ==
    /\ mitm.pc = "read"
    /\ mitm' = [mitm EXCEPT !.pc = "closed"]
    /\ UNCHANGED <<cfgWallet, now, rq, resp, account, deposited, stopVars,
                   keyVars, payVars, workerVars, scanning, sideVars>>

\* the request body is handed to the scanner
RequestScanned ==
    /\ mitm.contentLength > 0
    /\ scanning.Content.Enabled
    /\ mitm.reqLen > 0
    /\ mitm.reqLen < ScanCap

\* proxyHTTPS: scan the request body; a BLOCK result is answered with the
\* block response and the loop continues with the next request
proxyHTTPSScanRequest(outcome) ==
    /\ mitm.pc = "request"
    /\ LET result == IF RequestScanned THEN scanContent(outcome) ELSE NilResult
       IN  IF result # NilResult /\ result.Decision = "BLOCK"
           THEN mitm' = [mitm EXCEPT !.pc = "read", !.reqScan = outcome,
                                     !.client = <<sendBlockResponse(result)>>]
           ELSE mitm' = [mitm EXCEPT !.pc = "forward",
                                     !.reqScan = IF RequestScanned THEN outcome
                                                 ELSE "none"]
    /\ UNCHANGED <<cfgWallet, now, rq, resp, account, deposited, stopVars,
                   keyVars, payVars, workerVars, scanning, sideVars>>

\* proxyHTTPS: write the request to the server and read its response
proxyHTTPSForward(ct, n) ==
    /\ mitm.pc = "forward"
    /\ mitm' = [mitm EXCEPT !.pc = "response", !.upstream = TRUE,
                            !.respType = ct, !.respLen = n]
    /\ UNCHANGED <<cfgWallet, now, rq, resp, account, deposited, stopVars,
                   keyVars, payVars, workerVars, scanning, sideVars>>

\* proxyHTTPS: writing the request or reading the response fails; the
\* request may have reached the server
proxyHTTPSForwardError(sent) ==
    /\ mitm.pc = "forward"
    /\ mitm' = [mitm EXCEPT !.pc = "closed", !.upstream = sent]
    /\ UNCHANGED <<cfgWallet, now, rq, resp, account, deposited, stopVars,
                   keyVars, payVars, workerVars, scanning, sideVars>>

\* the response body is handed to the scanner
ResponseScanned ==
    /\ scanning.Content.Enabled
    /\ mitm.respLen > 0
    /\ mitm.respLen < ScanCap
    /\ ShouldScanContentType(mitm.respType)
    /\ ~IsBinaryContentType(mitm.respType)

\* proxyHTTPS: scan the response body, then block or forward it
proxyHTTPSScanResponse(outcome) ==
    /\ mitm.pc = "response"
    /\ LET scanResult == IF ResponseScanned THEN scanContent(outcome)
                         ELSE NilResult
       IN  mitm' = [mitm EXCEPT
               !.pc = "read",
               !.respScan = IF ResponseScanned THEN outcome ELSE "none",
               !.client =
                   IF /\ scanResult # NilResult
                      /\ getAction(scanResult.Decision, scanning.Content) = "block"
                   THEN <<sendBlockResponse(scanResult)>>
                   ELSE <<ForwardedResponse(scanResult, mitm.respLen)>>]
    /\ UNCHANGED <<cfgWallet, now, rq, resp, account, deposited, stopVars,
                   keyVars, payVars, workerVars, scanning, sideVars>>

\* one intercepted TLS connection at a time, under every scanning
\* configuration
NextProxy ==
    \/ HandleTLS
    \/ \E ct \in ContentTypes, n \in BodySizes, cl \in BodySizes \cup {-1} :
           proxyHTTPSReadRequest(ct, n, cl)
    \/ proxyHTTPSReadError
    \/ \E outcome \in ScanOutcomes : proxyHTTPSScanRequest(outcome)
    \/ \E ct \in ContentTypes, n \in BodySizes : proxyHTTPSForward(ct, n)
    \/ \E sent \in BOOLEAN : proxyHTTPSForwardError(sent)
    \/ \E outcome \in ScanOutcomes : proxyHTTPSScanResponse(outcome)

InitProxy ==
    /\ InitServer
    /\ cfgWallet = TRUE
    /\ balance = 0
    /\ account = [type |-> "b2b", status |-> "active", customer |-> FALSE]
    /\ scanning \in ScanningConfigs
    /\ mitm = ClosedConn
    /\ NewCertCache
    /\ NewStripeWebhookHandler
    /\ NewScannerClient
    /\ NewHTTPClients
    /\ bk = NoBackoff

SpecProxy == InitProxy /\ [][NextProxy]_vars

\* ====================================================== certificate cache
\* sync.RWMutex: RLock waits for a writer, Lock for the writer and the readers
CanRLock == mu.w = "none"
CanLock == mu.w = "none" /\ mu.r = {}

Present(cs) == { h \in Hosts : cs[h].cert # 0 }
Remove(cs, H) == [h \in Hosts |-> IF h \in H THEN NoEntry ELSE cs[h]]

\* hosts leave the map: the per-host history starts again, and the calls
\* under way for them have seen an eviction
Forget(H) ==
    /\ minted' = [h \in Hosts |-> IF h \in H THEN 0 ELSE minted[h]]
    /\ returned' = [h \in Hosts |-> IF h \in H THEN {} ELSE returned[h]]

Unclean(cl, H) ==
    [g \in Callers |-> IF cl[g].host \in H THEN [cl[g] EXCEPT !.clean = FALSE]
                       ELSE cl[g]]

\* GetCert returns certificate c for host h to goroutine g
Return(g, c) ==
    LET h == callers[g].host
    IN  /\ callers' = [callers EXCEPT ![g] = IdleCaller]
        /\ returned' = [returned EXCEPT ![h] =
                           IF callers[g].clean /\ c # 0 THEN @ \cup {c} ELSE @]

\* GetCert: c.mu.RLock()
GetCertRLock(g, h) ==
    /\ callers[g].pc = "idle"
    /\ CanRLock
    /\ mu' = [mu EXCEPT !.r = @ \cup {g}]
    /\ callers' = [callers EXCEPT ![g] =
                      [IdleCaller EXCEPT !.pc = "rlocked", !.host = h,
                                         !.clean = TRUE]]
    /\ UNCHANGED <<certs, evictPc, certClock, nextCert, minted, returned, discarded, lastEvict>>
    /\ UNCHANGED exceptCert

\* GetCert: look the host up and c.mu.RUnlock()
GetCertLookup(g) ==
    /\ callers[g].pc = "rlocked"
    /\ mu' = [mu EXCEPT !.r = @ \ {g}]
    /\ LET h == callers[g].host
       IN  callers' = [callers EXCEPT ![g] =
                          IF certs[h].cert # 0
                          THEN [@ EXCEPT !.pc = "hit", !.entry = certs[h].cert]
                          ELSE [@ EXCEPT !.pc = "generate"]]
    /\ UNCHANGED <<certs, evictPc, certClock, nextCert, minted, returned, discarded, lastEvict>>
    /\ UNCHANGED exceptCert

\* GetCert, cache hit: c.mu.Lock() to update lastUsed
GetCertHitLock(g) ==
    /\ callers[g].pc = "hit"
    /\ CanLock
    /\ mu' = [mu EXCEPT !.w = "hit"]
    /\ callers' = [callers EXCEPT ![g].pc = "hitLocked"]
    /\ UNCHANGED <<certs, evictPc, certClock, nextCert, minted, returned, discarded, lastEvict>>
    /\ UNCHANGED exceptCert

\* GetCert, cache hit: entry.lastUsed = time.Now(), unlock, return entry.cert;
\* the entry is the one found under the read lock, in the map or not
GetCertHitReturn(g) ==
    /\ callers[g].pc = "hitLocked"
    /\ LET h == callers[g].host
       IN  certs' = IF certs[h].cert = callers[g].entry
                    THEN [certs EXCEPT ![h].lastUsed = certClock]
                    ELSE certs
    /\ mu' = Unlocked
    /\ Return(g, callers[g].entry)
    /\ UNCHANGED <<evictPc, certClock, nextCert, minted, discarded, lastEvict>>
    /\ UNCHANGED exceptCert

\* GetCert, cache miss: c.ca.GenerateCert(host), outside any lock
GenerateCert(g, ok) ==
    /\ callers[g].pc = "generate"
    /\ nextCert <= MaxCerts
    /\ minted' = [minted EXCEPT ![callers[g].host] = IF ok THEN @ + 1 ELSE @]
    /\ nextCert' = nextCert + 1
    /\ callers' = IF ok
                  THEN [callers EXCEPT ![g].pc = "insert", ![g].cert = nextCert]
                  ELSE [callers EXCEPT ![g] = IdleCaller]
    /\ UNCHANGED <<certs, mu, evictPc, certClock, returned, discarded, lastEvict>>
    /\ UNCHANGED exceptCert

\* GetCert, cache miss: c.mu.Lock() to cache the certificate
GetCertInsertLock(g) ==
    /\ callers[g].pc = "insert"
    /\ CanLock
    /\ mu' = [mu EXCEPT !.w = "insert"]
    /\ callers' = [callers EXCEPT ![g].pc = "insertLocked"]
    /\ UNCHANGED <<certs, evictPc, certClock, nextCert, minted, returned, discarded, lastEvict>>
    /\ UNCHANGED exceptCert

\* an insertion that overwrites whatever the map holds
NeverExisting(h) == FALSE
\* the double-check under the write lock: another goroutine cached the host
Existing(h) == certs[h].cert # 0

\* GetCert, cache miss: double-check, insert, unlock, return
GetCertInsert(g) ==
    /\ callers[g].pc = "insertLocked"
    /\ LET h == callers[g].host
       IN  IF Existing(h)
           THEN /\ certs' = [certs EXCEPT ![h].lastUsed = certClock]
                /\ Return(g, certs[h].cert)
                /\ discarded' = discarded \cup {callers[g].cert}
           ELSE /\ certs' = [certs EXCEPT ![h] = [cert |-> callers[g].cert,
                                                   lastUsed |-> certClock]]
                /\ Return(g, callers[g].cert)
                /\ discarded' = discarded
    /\ mu' = Unlocked
    /\ UNCHANGED <<evictPc, certClock, nextCert, minted, lastEvict>>
    /\ UNCHANGED exceptCert

\* Clear: replace the map under the write lock
Clear ==
    /\ CanLock
    /\ Present(certs) # {}
    /\ certs' = [h \in Hosts |-> NoEntry]
    /\ Forget(Present(certs))
    /\ callers' = Unclean(callers, Present(certs))
    /\ UNCHANGED <<mu, evictPc, certClock, nextCert, discarded, lastEvict>>
    /\ UNCHANGED exceptCert

\* entries whose last use is more than the TTL ago
Expired(cs, t) == { h \in Present(cs) : t - cs[h].lastUsed > ttl }

\* the orders a set of hosts can be listed in
Orders(S) ==
    { e \in [1..Cardinality(S) -> S] :
        \A i, j \in 1..Cardinality(S) : e[i] = e[j] => i = j }

\* the entries in any order
AnyOrder(cs) == Orders(Present(cs))
\* the entries as sort.Slice leaves them: by lastUsed, ties in any order
SortedByLastUsed(cs) ==
    { e \in Orders(Present(cs)) :
        \A i, j \in DOMAIN e :
            i < j => ~(cs[e[j]].lastUsed < cs[e[i]].lastUsed) }

\* the loop over the sorted entries: delete until the target is reached
RECURSIVE evictOldest(_, _, _)
evictOldest(cs, entries, target) ==
    IF entries = << >> \/ Cardinality(Present(cs)) <= target
    THEN cs
    ELSE evictOldest(Remove(cs, {Head(entries)}), Tail(entries), target)

\* startEviction: the ticker fires and evict takes the write lock
evictLock ==
    /\ evictPc = "idle"
    /\ CanLock
    /\ mu' = [mu EXCEPT !.w = "evict"]
    /\ evictPc' = "locked"
    /\ UNCHANGED <<certs, callers, certClock, nextCert, minted, returned, discarded, lastEvict>>
    /\ UNCHANGED exceptCert

\* evict: the TTL phase, the size phase, unlock
evict ==
    /\ evictPc = "locked"
    /\ LET afterTTL == Remove(certs, Expired(certs, certClock))
       IN  \E entries \in SortedByLastUsed(afterTTL) :
               LET after == IF Cardinality(Present(afterTTL)) > maxSize
                            THEN evictOldest(afterTTL, [k \in 1..Len(entries) |-> entries[k]],
                                             (maxSize * 3) \div 4)
                            ELSE afterTTL
                   gone == Present(certs) \ Present(after)
               IN  /\ certs' = after
                   /\ Forget(gone)
                   /\ callers' = Unclean(callers, gone)
                   /\ lastEvict' = [expired |-> Expired(certs, certClock),
                                    oldest |-> Present(afterTTL) \ Present(after)]
    /\ mu' = Unlocked
    /\ evictPc' = "idle"
    /\ UNCHANGED <<certClock, nextCert, discarded>>
    /\ UNCHANGED exceptCert

\* time passes
CertTick ==
    /\ certClock < MaxCertTicks
    /\ certClock' = certClock + 1
    /\ UNCHANGED <<certs, mu, callers, evictPc, nextCert, minted, returned, discarded, lastEvict>>
    /\ UNCHANGED exceptCert

\* goroutines that ask the cache for certificates, the eviction goroutine
\* and the clock
NextCert ==
    \/ \E g \in Callers, h \in Hosts : GetCertRLock(g, h)
    \/ \E g \in Callers : GetCertLookup(g)
    \/ \E g \in Callers : GetCertHitLock(g)
    \/ \E g \in Callers : GetCertHitReturn(g)
    \/ \E g \in Callers, ok \in BOOLEAN : GenerateCert(g, ok)
    \/ \E g \in Callers : GetCertInsertLock(g)
    \/ \E g \in Callers : GetCertInsert(g)
    \/ Clear
    \/ evictLock
    \/ evict
    \/ CertTick

InitCert ==
    /\ Init
    /\ cfgWallet = TRUE
    /\ balance = 0
    /\ account = [type |-> "b2b", status |-> "active", customer |-> FALSE]

SpecCert == InitCert /\ [][NextCert]_vars

\* ================================================================ webhooks
\* an insert that never finds the id
NeverRecorded(id) == FALSE
\* INSERT ... ON CONFLICT (event_id) DO NOTHING found the id already there
AlreadyRecorded(id) == id \in processed

\* the response of a delivery
Answer(d, code) == [hooks[d] EXCEPT !.pc = "done", !.status = code]

\* HandleWebhook up to the idempotency check: a missing or invalid signature
\* and a timestamp older than the tolerance are answered 400; then
\* CheckAndRecordWebhookEvent, one statement: a duplicate is answered 200,
\* a database error 500
HandleWebhook(d, e, valid, dbOk) ==
    /\ hooks[d].pc \in {"idle", "done"}
    /\ LET h == [IdleHook EXCEPT !.event = e]
       IN  IF ~valid
           THEN /\ hooks' = [hooks EXCEPT ![d] = [h EXCEPT !.pc = "done", !.status = 400]]
                /\ processed' = processed
           ELSE IF ~dbOk
           THEN /\ hooks' = [hooks EXCEPT ![d] = [h EXCEPT !.pc = "done", !.status = 500]]
                /\ processed' = processed
           ELSE IF AlreadyRecorded(e.id)
           THEN /\ hooks' = [hooks EXCEPT ![d] =
                                [h EXCEPT !.pc = "done", !.status = 200,
                                          !.duplicate = TRUE]]
                /\ processed' = processed
           ELSE /\ hooks' = [hooks EXCEPT ![d] = [h EXCEPT !.pc = "route"]]
                /\ processed' = processed \cup {e.id}
    /\ UNCHANGED <<depositStatus, applied>>
    /\ UNCHANGED exceptHook

\* handleOnrampSessionUpdated, the session status: fulfillment_complete reads
\* the deposit and skips a completed one, rejected goes on to FailDeposit,
\* any other status is ignored
handleOnrampSessionUpdated(d, dbOk) ==
    /\ hooks[d].pc = "route"
    /\ hooks' = [hooks EXCEPT ![d] =
          CASE hooks[d].event.status = "fulfillment_complete" ->
                  IF ~dbOk THEN Answer(d, 500)
                  ELSE IF depositStatus = "completed" THEN Answer(d, 200)
                  ELSE [@ EXCEPT !.pc = "apply"]
            [] hooks[d].event.status = "rejected" ->
                  [@ EXCEPT !.pc = "apply"]
            [] OTHER -> Answer(d, 200)]
    /\ UNCHANGED <<processed, depositStatus, applied>>
    /\ UNCHANGED exceptHook

\* handleOnrampSessionUpdated: CompleteDeposit or FailDeposit, then the answer
ApplyDeposit(d, dbOk) ==
    /\ hooks[d].pc = "apply"
    /\ IF dbOk
       THEN /\ depositStatus' = IF hooks[d].event.status = "fulfillment_complete"
                                THEN "completed" ELSE "failed"
            /\ applied' = [applied EXCEPT ![hooks[d].event.id] = @ + 1]
            /\ hooks' = [hooks EXCEPT ![d] = [Answer(d, 200) EXCEPT !.didApply = TRUE]]
       ELSE /\ hooks' = [hooks EXCEPT ![d] = Answer(d, 500)]
            /\ UNCHANGED <<depositStatus, applied>>
    /\ UNCHANGED processed
    /\ UNCHANGED exceptHook

\* deliveries of the billing provider's events, handled concurrently
NextHook ==
    \/ \E d \in Deliveries, e \in Events, valid \in BOOLEAN, dbOk \in BOOLEAN :
           HandleWebhook(d, e, valid, dbOk)
    \/ \E d \in Deliveries, dbOk \in BOOLEAN : handleOnrampSessionUpdated(d, dbOk)
    \/ \E d \in Deliveries, dbOk \in BOOLEAN : ApplyDeposit(d, dbOk)

InitHook ==
    /\ Init
    /\ cfgWallet = TRUE
    /\ balance = 0
    /\ account = [type |-> "b2b", status |-> "active", customer |-> FALSE]

SpecHook == InitHook /\ [][NextHook]_vars

\* =========================================================== scanner client
\* wallet.IsSolanaNetwork
IsSolanaNetwork(network) == network = "solana"

\* ScannerClient.scan: one POST to the scanning API, with X-Payment set when
\* paymentHeader is not empty (0 stands for the empty string), answered r:
\* the request as sent, and what scan returns
scan(paymentHeader, r) ==
    [request |-> [xPayment |-> paymentHeader, answered |-> r.status],
     result |-> r.status = 200 /\ r.wellFormed,
     statusCode |-> r.status,
     paymentReq |-> IF r.status = 402 /\ r.wellFormed THEN r.network ELSE "",
     err |-> ~(r.status \in {200, 402} /\ r.wellFormed)]

\* scanWithPayment returns
Returns(c, result, err) == [c EXCEPT !.pc = "done", !.result = result, !.err = err]

\* SetWallet / SetSolanaWallet, while no call is in progress
SetWallet ==
    /\ call.pc \in {"idle", "done"}
    /\ ~scanner.wallet
    /\ scanner' = [scanner EXCEPT !.wallet = TRUE]
    /\ UNCHANGED <<call, wire, exceptClient>>

SetSolanaWallet ==
    /\ call.pc \in {"idle", "done"}
    /\ ~scanner.solanaWallet
    /\ scanner' = [scanner EXCEPT !.solanaWallet = TRUE]
    /\ UNCHANGED <<call, wire, exceptClient>>

\* ScanContent -> scanWithPayment, up to the answer to the first request
scanWithPayment(r) ==
    /\ call.pc \in {"idle", "done"}
    /\ scanner.scans < MaxScans
    /\ scanner' = [scanner EXCEPT !.scans = @ + 1]
    /\ LET a == scan(0, r) IN
       /\ wire' = <<a.request>>
       /\ call' = IF a.err \/ a.statusCode # 402 THEN Returns(IdleCall, a.result, a.err)
                  ELSE IF a.paymentReq = "" THEN Returns(IdleCall, FALSE, TRUE)
                  ELSE [IdleCall EXCEPT !.pc = "pay", !.paymentReq = a.paymentReq]
    /\ UNCHANGED exceptClient

\* scanWithPayment: select the wallet for the network and create the payment
CreateX402Payment(ok) ==
    /\ call.pc = "pay"
    /\ LET selectedWallet == IF IsSolanaNetwork(call.paymentReq)
                               THEN scanner.solanaWallet ELSE scanner.wallet IN
       call' = IF ~selectedWallet THEN Returns(call, FALSE, TRUE)
               ELSE IF ~ok THEN Returns(call, FALSE, TRUE)
               ELSE [call EXCEPT !.pc = "retry",
                                 !.paymentHeader = scanner.scans,
                                 !.envelopes = @ + 1]
    /\ UNCHANGED <<scanner, wire, exceptClient>>

\* a retry that pays again whenever the answer is 402
scanWithPaymentRetryAgain(r) ==
    /\ call.pc = "retry"
    /\ LET a == scan(call.paymentHeader, r) IN
       /\ wire' = Append(wire, a.request)
       /\ call' = IF a.err THEN Returns(call, FALSE, TRUE)
                  ELSE IF a.statusCode = 402 /\ Len(wire) < 2
                    THEN [call EXCEPT !.pc = "pay", !.paymentReq = a.paymentReq]
                  ELSE IF a.statusCode = 402 THEN Returns(call, FALSE, TRUE)
                  ELSE Returns(call, a.result, FALSE)
    /\ UNCHANGED <<scanner, exceptClient>>

\* scanWithPayment: "Retry with payment", the second request and its answer
scanWithPaymentRetry(r) ==
    /\ call.pc = "retry"
    /\ LET a == scan(call.paymentHeader, r) IN
       /\ wire' = Append(wire, a.request)
       /\ call' = IF a.err THEN Returns(call, FALSE, TRUE)
                  ELSE IF a.statusCode = 402 THEN Returns(call, FALSE, TRUE)
                  ELSE Returns(call, a.result, FALSE)
    /\ UNCHANGED <<scanner, exceptClient>>

NextClient ==
    \/ SetWallet
    \/ SetSolanaWallet
    \/ \E r \in ServerResponses : scanWithPayment(r)
    \/ \E ok \in BOOLEAN : CreateX402Payment(ok)
    \/ \E r \in ServerResponses : scanWithPaymentRetry(r)

InitClient ==
    /\ Init
    /\ cfgWallet = TRUE
    /\ balance = 0
    /\ account = [type |-> "b2b", status |-> "active", customer |-> FALSE]

SpecClient == InitClient /\ [][NextClient]_vars

\* ============================================================== HTTP clients
\* http.Client.CheckRedirect as the constructor sets it: NewScannerClient
\* returns http.ErrUseLastResponse, NewX402Middleware and NewWorker leave the
\* field nil, which is net/http's default policy of following redirects
CheckRedirect(c) == IF c = "scanner" THEN "ErrUseLastResponse" ELSE "default"

Is3xx(status) == status \in {301, 302, 303, 307, 308}

\* net/http on a redirect of a POST: 307 and 308 repeat the method, the
\* headers and the body, 301, 302 and 303 turn it into a GET without body
\* (custom headers such as X-Payment are copied in both cases)
CarriedOn(c, status, carries) ==
    IF c = "scanner" THEN carries
    ELSE carries /\ status \in {307, 308}

\* the client sends its request, payment included, to the configured URL
ClientPost(c) ==
    /\ http[c].pc = "idle"
    /\ http' = [http EXCEPT ![c] = [IdleExchange EXCEPT !.pc = "sent", !.carries = TRUE]]
    /\ UNCHANGED exceptHTTP

\* the server the request went to answers; on a 3xx the client consults
\* CheckRedirect and either returns the answer or sends the next request
ClientResponse(c, status) ==
    /\ http[c].pc = "sent"
    /\ http' = [http EXCEPT ![c] =
          IF ~Is3xx(status) \/ CheckRedirect(c) = "ErrUseLastResponse"
            THEN [@ EXCEPT !.pc = "done", !.status = status]
          ELSE IF @.hops >= MaxRedirects
            THEN [@ EXCEPT !.pc = "done", !.status = 0]
          ELSE LET k == CarriedOn(c, status, @.carries) IN
               [@ EXCEPT !.hops = @ + 1, !.carries = k, !.status = status,
                         !.leaked = @ \/ k]]
    /\ UNCHANGED exceptHTTP

\* the caller is done with the answer; the client is ready for the next request
ClientReturn(c) ==
    /\ http[c].pc = "done"
    /\ http' = [http EXCEPT ![c] = IdleExchange]
    /\ UNCHANGED exceptHTTP

NextHTTP ==
    \/ \E c \in HTTPClients : ClientPost(c)
    \/ \E c \in HTTPClients, status \in HTTPStatuses : ClientResponse(c, status)
    \/ \E c \in HTTPClients : ClientReturn(c)

InitHTTP ==
    /\ Init
    /\ cfgWallet = TRUE
    /\ balance = 0
    /\ account = [type |-> "b2b", status |-> "active", customer |-> FALSE]

SpecHTTP == InitHTTP /\ [][NextHTTP]_vars

\* ================================================================== backoff
\* retryFailedSettlements, for one payment of the batch: the backoff for its
\* settlement_attempts and the comparison with the time since executed_at
BackoffCheck(attempts, elapsed) ==
    /\ bk' = [pc |-> "checked", attempts |-> attempts, elapsed |-> elapsed,
              backoff |-> calculateBackoff(attempts),
              due |-> ~(elapsed < calculateBackoff(attempts))]
    /\ UNCHANGED exceptBackoff

NextBackoff ==
    \E attempts \in 0..MaxAttempts, elapsed \in ElapsedSamples :
        BackoffCheck(attempts, elapsed)

InitBackoff ==
    /\ Init
    /\ cfgWallet = TRUE
    /\ balance = 0
    /\ account = [type |-> "b2b", status |-> "active", customer |-> FALSE]

SpecBackoff == InitBackoff /\ [][NextBackoff]_vars

\* ================================================================ properties

\* the row of payment_transactions stored for header h, 0 if there is none
RowOfHeader(h) ==
    IF \E i \in DOMAIN rows : rows[i].hdr = h
      THEN CHOOSE i \in DOMAIN rows : rows[i].hdr = h
      ELSE 0

\* C1: of all x402 requests that carry the same payment nonce, the scan
\* handler is executed for at most one; the others get the stored result
\* or a 409.  (Stated for a service with a wallet address, where the gates
\* demand payment.)
C1_HandlerAtMostOncePerNonce ==
    cfgWallet => \A n \in Nonces : handlerRuns[n] <= 1

\* C8: no two rows of payment_transactions share a payment_nonce, also
\* after two requests with the same nonce raced for the reservation.
C8_NonceUnique ==
    \A i \in DOMAIN rows : \A j \in DOMAIN rows :
        rows[i].nonce = rows[j].nonce => i = j

\* C8 witness: a request lost the race for its nonce: its lookup found no
\* row, its INSERT hit the row another request had inserted meanwhile
C8_Witness ==
    /\ resp.pc = "done"
    /\ resp.note = "unique_violation"
    /\ resp.status = 409
    /\ RowOfHeader(resp.hdr) # 0

\* C2: once a payment's row is settling or completed, every later request
\* with the same X-Payment header gets the service result stored by the
\* first execution, and causes no handler execution, no /verify call and
\* no /settle call.
C2_ReplayServedFromStore ==
    (resp.pc = "done" /\ resp.sawRow /\ cfgWallet) =>
        /\ resp.status = 200
        /\ resp.body = rows[RowOfHeader(resp.hdr)].result
        /\ ~resp.ran
        /\ ~CalledVerify(resp)
        /\ ~resp.calledSettle

\* C3: a payment enters completed at most once and never leaves it: no
\* step of a request, of the retry loop or of the expiration loop changes
\* the status or the facilitator payment id of a completed row.
C3_CompletedIsTerminal ==
    [][\A i \in DOMAIN rows :
          rows[i].status = "completed" =>
              /\ rows'[i].status = "completed"
              /\ rows'[i].facId = rows[i].facId]_vars

\* C3 witness: a payment completed by the retry loop, its reservation ttl
\* long past, while the loop goes on with its batch
C3_Witness ==
    \E i \in DOMAIN rows :
        /\ rows[i].status = "completed"
        /\ rows[i].attempts > 0
        /\ rows[i].expiresAt < now
        /\ wpc = "batch"

\* C5: a payment whose handler answered non-2xx is marked failed and
\* /settle is never called for it, neither by the middleware nor by the
\* settlement worker.
C5_NoSettleAfterServiceError ==
    \A i \in DOMAIN rows :
        rows[i].lastError = "service" =>
            /\ rows[i].status = "failed"
            /\ ~(wpc = "settle" /\ wcur = i)

\* C6: whenever an x402-paid request is answered 2xx, its payment has been
\* settled, or is recorded as failed or settling together with its header
\* for the settlement worker.
C6_PaidResponseSettledOrRecorded ==
    (resp.pc = "done" /\ resp.paid = "x402" /\ Is2xx(resp.status)) =>
        \/ resp.hdr \in facSettled
        \/ /\ RowOfHeader(resp.hdr) # 0
           /\ rows[RowOfHeader(resp.hdr)].status \in {"failed", "settling"}

\* the transitions C7 lists
C7_Listed ==
    { <<"reserved", "executing">>, <<"executing", "settling">>,
      <<"executing", "failed">>, <<"settling", "completed">>,
      <<"settling", "failed">>, <<"failed", "settling">>,
      <<"reserved", "expired">> }

GateExpected(q) == IF q.gate = "Route" THEN AtomicExpected ELSE LegacyExpected

\* request q paid: its X-Payment passed the local checks and /verify, or its
\* API key authenticated and it was charged credits or the account has a
\* billing customer
C4_Paid(q) ==
    \/ /\ q.hdr # NoHeader
       /\ q.hdr.amount = GateExpected(q)
       /\ Verified(q)
    \/ /\ q.auth = "key"
       /\ account.type = "b2b"
       /\ account.status = "active"
       /\ \/ q.paid = "credits"
          \/ q.paid = "metered" /\ account.customer

\* request q carried neither header, or a payment that was rejected
C4_Unpaid(q) ==
    \/ q.hdr = NoHeader /\ ~LooksLikeAPIKey(q.auth)
    \/ q.hdr # NoHeader /\ (q.hdr.amount # GateExpected(q) \/ q.verify = "invalid")

\* C4 as stated: the handler of a priced scan route runs only for a paid
\* request; a request with neither header or with a rejected payment is
\* answered 402 and the handler is not invoked.
C4_HandlerOnlyIfPaid ==
    resp.pc = "done" =>
        /\ resp.ran => C4_Paid(resp)
        /\ C4_Unpaid(resp) => (resp.status = 402 /\ ~resp.ran)

\* the gate of request q demands payment: RequirePayment and Middleware
\* do so only if the service has a wallet address
C4_GateEnforces(q) == q.gate = "Route" \/ cfgWallet

\* C4 amended: at a gate that demands payment (Route, or RequirePayment /
\* Middleware of a service with a wallet address) the handler runs only for
\* a paid request, and a request with neither header or with a rejected
\* payment is answered 402 and the handler is not invoked.
C4_Amended ==
    (resp.pc = "done" /\ C4_GateEnforces(resp)) =>
        /\ resp.ran => C4_Paid(resp)
        /\ C4_Unpaid(resp) => (resp.status = 402 /\ ~resp.ran)

\* C4 witness: a request whose payment the facilitator rejected was answered
\* 402 without the handler, after the handler had run for a paid request
C4_Witness ==
    /\ resp.pc = "done"
    /\ cfgWallet
    /\ resp.verify = "invalid"
    /\ resp.status = 402
    /\ ~resp.ran
    /\ \E n \in Nonces : handlerRuns[n] > 0

\* C9: when the balance covers k calls of price P and more than k API-key
\* requests arrive concurrently, at most k of them are paid from credits,
\* and the balance is never negative.
C9_NoOverdraft ==
    /\ balance >= 0
    /\ creditPaid <= deposited \div RoutePrice

\* C9 witness: two concurrent requests on a balance that covers fewer: one
\* was charged and is still being served while the other is refused
C9_Witness ==
    /\ resp.pc = "done"
    /\ resp.note = "insufficient_credits"
    /\ resp.status = 402
    /\ creditPaid >= 1
    /\ creditPaid = deposited \div RoutePrice
    /\ \E s \in Slots : rq[s].pc = "log" /\ rq[s].paid = "credits"

\* C10: for every API-key request served from credits the balance ends
\* exactly P lower: with no usage log insert pending, the balance is the
\* deposits minus P per request charged, so the deduction and the usage
\* log insert never both charge the account.
C10_ChargedExactlyOnce ==
    (\A s \in Slots : rq[s].pc # "log") =>
        balance = deposited - RoutePrice * creditPaid

\* C11: if facilitator /settle fails after a 2xx handler response, the
\* caller still gets the 200 scan result and the payment's row is failed
\* with settlement_attempts = 1 and last_error set (a later retry whose
\* /settle succeeds with payment id p completes the row with that id).
C11_SettleFailureRecorded ==
    (resp.pc = "done" /\ resp.calledSettle /\ ~resp.settled) =>
        /\ resp.status = 200
        /\ resp.ran
        /\ RowOfHeader(resp.hdr) # 0
        /\ rows[RowOfHeader(resp.hdr)].status = "failed"
        /\ rows[RowOfHeader(resp.hdr)].attempts = 1
        /\ rows[RowOfHeader(resp.hdr)].lastError # "none"

\* both loops of the worker have returned
LoopsReturned == wpc = "returned" /\ epc = "returned"

\* C15: once Stop() is called or the context is cancelled, the retry loop
\* and the expiration loop both eventually return (unless the process dies
\* first), and Stop() returns only after both loops have returned.
C15_ShutdownCompletes ==
    /\ [](stopPc = "returned" => LoopsReturned)
    /\ (Signalled ~> (LoopsReturned \/ ~Signalled))

\* C15 witness: Stop() was called without the context being cancelled and
\* has returned, both loops having returned
C15_Witness ==
    /\ stopPc = "returned"
    /\ ~ctxDone
    /\ LoopsReturned

\* row i is settling while nobody is settling it: neither a request nor the
\* retry loop is at its facilitator call for the row
Orphaned(i) ==
    /\ i \in DOMAIN rows
    /\ rows[i].status = "settling"
    /\ \A s \in Slots : ~(rq[s].pc = "settle" /\ rq[s].row = i)
    /\ ~(wpc = "settle" /\ wcur = i)

\* C13: a payment left in settling, because the process stopped or the
\* follow-up status write failed after the row was marked settling, is
\* eventually picked up by the settlement worker and leaves settling for
\* completed or failed.
C13_SettlingIsPickedUp ==
    \A i \in 1..MaxRows :
        Orphaned(i) ~> (i \in DOMAIN rows /\ rows[i].status \in {"completed", "failed"})

\* C16: when shutdown is signalled while the retry loop is in the middle of
\* a batch, the loop goes through every remaining payment of the batch
\* before it leaves the batch.
C16_BatchFinishedBeforeExit ==
    [][(/\ wpc = "batch"
        /\ Signalled /\ Signalled'
        /\ \A k \in DOMAIN wbatch : wbatch[k].executedAt # NULL /\ wbatch[k].idx > 1
        /\ wpc' = "idle")
          => Len(wbatch) = 0]_vars

C14_ExpirationFrame ==
    [][expireStaleReservations =>
          /\ DOMAIN rows' = DOMAIN rows
          /\ \A i \in DOMAIN rows :
                rows'[i] = IF rows[i].status = "reserved" /\ rows[i].expiresAt < now
                             THEN [rows[i] EXCEPT !.status = "expired"]
                             ELSE rows[i]
          /\ balance' = balance
          /\ usageLogs' = usageLogs
          /\ facSettled' = facSettled]_vars

\* C14 witness: a pass expired a stale reservation and left alone a row
\* that is just as old but not reserved
C14_Witness ==
    \E i \in DOMAIN rows : \E j \in DOMAIN rows :
        /\ rows[i].status = "expired"
        /\ rows[j].status \notin {"reserved", "expired"}
        /\ rows[j].expiresAt < now

\* ------------------------------------------------------------ proxy claims
\* the proxy has answered the client for the message it last read
MessageDone == mitm.pc = "read" /\ mitm.client # << >>
\* the one response the client got for the message is the 403 block response
ClientBlocked ==
    /\ Len(mitm.client) = 1
    /\ mitm.client[1].StatusCode = 403
    /\ mitm.client[1].bytes = 0

\* C17: with FailOpen = false, under every scanning configuration, a message
\* whose scanner call failed is answered with a 403 block response and its
\* body is not forwarded: a request body whose scan failed is never sent to
\* the upstream, a response body whose scan failed is never sent to the
\* client.
C17_FailClosed ==
    ~scanning.FailOpen =>
        /\ mitm.reqScan = "error" => ~mitm.upstream
        /\ (MessageDone /\ "error" \in {mitm.reqScan, mitm.respScan}) =>
               ClientBlocked

\* the action the scanning configuration gives for the result of a scan
\* ("none" when the scanner was not called)
ScanAction(outcome) ==
    IF outcome = "none" THEN "none"
    ELSE IF scanContent(outcome) = NilResult THEN "allow"
    ELSE getAction(scanContent(outcome).Decision, scanning.Content)

\* C18: content whose scan action is block never reaches its destination (a
\* blocked request body is never sent upstream, a blocked response body is
\* never sent to the client), and for that message the client receives
\* exactly one response: a 403 with X-Stronghold-Decision: BLOCK,
\* X-Stronghold-Action: block and a JSON body with reason and request_id.
C18_BlockedNeverDelivered ==
    /\ ScanAction(mitm.reqScan) = "block" => ~mitm.upstream
    /\ (MessageDone /\ "block" \in {ScanAction(mitm.reqScan),
                                    ScanAction(mitm.respScan)}) =>
           /\ ClientBlocked
           /\ mitm.client[1].Decision = "BLOCK"
           /\ mitm.client[1].Action = "block"
           /\ {"reason", "request_id"} \subseteq mitm.client[1].json

\* a body above the scan cap with a content type the proxy scans
Oversized(n, contentType) == n > ScanCap /\ ShouldScanContentType(contentType)

\* C19: for a message whose body is larger than the 1 MiB scan cap and whose
\* content type is scannable, the scanner is not called, the body is
\* forwarded unchanged (the request to the upstream, the response to the
\* client) and the forwarded response carries X-Stronghold-Decision: ALLOW.
C19_OversizedStreamed ==
    /\ Oversized(mitm.reqLen, mitm.reqType) =>
           /\ mitm.reqScan = "none"
           /\ MessageDone => mitm.upstream
    /\ (MessageDone /\ mitm.upstream /\ Oversized(mitm.respLen, mitm.respType)) =>
           /\ mitm.respScan = "none"
           /\ Len(mitm.client) = 1
           /\ mitm.client[1].StatusCode = 200
           /\ mitm.client[1].bytes = mitm.respLen
           /\ mitm.client[1].Decision = "ALLOW"

\* C20: for a request or a response whose content type is binary the scanner
\* is never called, whatever the size of the body.
C20_BinaryNeverScanned ==
    /\ IsBinaryContentType(mitm.reqType) => mitm.reqScan = "none"
    /\ IsBinaryContentType(mitm.respType) => mitm.respScan = "none"

\* ------------------------------------------------ certificate cache claims
\* C21: absent an eviction or Clear of the host in between, all GetCert calls
\* for a host, sequential or concurrent, return the same certificate; a
\* certificate generated by a caller that lost the insertion race is
\* discarded and never returned.
C21_SameCertificate ==
    \A h \in Hosts :
        /\ Cardinality(returned[h]) <= 1
        /\ returned[h] \cap discarded = {}

\* a caller lost the insertion race and got the winner's certificate
C21_Witness ==
    \E h \in Hosts :
        /\ discarded # {}
        /\ certs[h].cert # 0
        /\ returned[h] = {certs[h].cert}
        /\ minted[h] = 2
        /\ \A g \in Callers : callers[g].pc = "idle"

\* C22: between two evictions of a host the CA's certificate generator is
\* invoked exactly once for it, however many GetCert calls for the host miss
\* the cache at the same time (calls of the generator that fail are not
\* counted here).
C22_GeneratedOncePerHost ==
    \A h \in Hosts : minted[h] <= 1

\* the entries of a cache in use order: nothing older than the TTL
NoneExpired(cs, t) == \A h \in Present(cs) : t - cs[h].lastUsed <= ttl

\* C23: after an eviction pass no entry older than the TTL remains; if more
\* than maxSize entries survive the TTL phase the pass removes entries in
\* increasing last-used order until exactly floor(0.75 * maxSize) remain, so
\* every removed entry is no more recently used than every survivor; if at
\* most maxSize survive the TTL phase nothing else is removed.
C23_EvictionPass ==
    [][evict =>
        LET live == Present(certs) \ Expired(certs, certClock)
            kept == Present(certs')
        IN  /\ NoneExpired(certs', certClock)
            /\ kept \subseteq live
            /\ \A h \in kept : certs'[h] = certs[h]
            /\ IF Cardinality(live) > maxSize
               THEN /\ Cardinality(kept) = (3 * maxSize) \div 4
                    /\ \A gone \in live \ kept, h \in kept :
                           certs[gone].lastUsed <= certs[h].lastUsed
               ELSE kept = live]_vars

\* a pass has removed an expired entry, and a pass has cut the cache down to
\* its target, removing an older entry and keeping a newer one
C23_Witness ==
    /\ lastEvict.oldest # {}
    /\ evictPc = "idle"
    /\ Cardinality(Present(certs)) = (3 * maxSize) \div 4
    /\ \E h \in Present(certs) : certs[h].lastUsed > 0

\* C24: GetCert calls that hit the cache take only the read lock: the write
\* lock is held only while a newly generated entry is inserted or during an
\* eviction pass.
C24_HitsShareTheLock ==
    mu.w \in {"none", "insert", "evict"}

\* ---------------------------------------------------------- webhook claims
\* C25: for every webhook event id the side effect of the event (completing
\* or failing the deposit) is applied at most once over all deliveries of the
\* id, concurrent ones included; a delivery that finds the id recorded is
\* answered 200 and does not apply the side effect again.
C25_WebhookAppliedOnce ==
    /\ \A id \in EventIds : applied[id] <= 1
    /\ \A d \in Deliveries :
           (hooks[d].pc = "done" /\ hooks[d].duplicate) =>
               (hooks[d].status = 200 /\ ~hooks[d].didApply)

\* an event was applied by one delivery and a second delivery of the same id
\* was answered as a duplicate
C25_Witness ==
    \E d1, d2 \in Deliveries :
        /\ d1 # d2
        /\ hooks[d1].pc = "done" /\ hooks[d1].didApply
        /\ hooks[d2].pc = "done" /\ hooks[d2].duplicate
        /\ hooks[d2].event = hooks[d1].event
        /\ applied[hooks[d1].event.id] = 1

\* ------------------------------------------------------ API-key claims
\* the key is known, not revoked, and its account is a b2b account in good
\* standing
KeyAccepted(a) ==
    /\ a = "key"
    /\ ~keyRevoked
    /\ account.type = "b2b"
    /\ account.status = "active"

\* task s takes up a request that presents an API key in this step
KeyAdmitted(s) ==
    /\ rq[s].pc = "idle"
    /\ rq'[s].pc # "idle"
    /\ rq'[s].hdr = NoHeader
    /\ LooksLikeAPIKey(rq'[s].auth)

\* a request that presents an API key is answered on arrival in this step
KeyAnswered ==
    /\ rq' = rq
    /\ resp'.pc = "done"
    /\ resp'.hdr = NoHeader
    /\ LooksLikeAPIKey(resp'.auth)

\* C26: API-key authentication succeeds only for a known key that is not
\* revoked and whose account is b2b and active; every other request that
\* presents an API key is answered 401 with no account id bound, no balance
\* deduction, no usage log and no handler invocation
C26_RejectedWith401 ==
    [][/\ \A s \in Slots : KeyAdmitted(s) =>
             KeyAccepted(rq'[s].auth) /\ rq'[s].bound
       /\ KeyAnswered =>
             /\ ~KeyAccepted(resp'.auth)
             /\ resp'.status = 401
             /\ ~resp'.bound
             /\ ~resp'.ran
             /\ resp'.paid = "none"
             /\ UNCHANGED <<balance, usageLogs>>]_vars

\* C27: once RevokeAPIKey has succeeded the key stays revoked, and every
\* later request that presents it fails authentication: none is admitted and
\* each is answered 401
C27_RevokedNeverAuthenticates ==
    [][keyRevoked =>
          /\ keyRevoked'
          /\ \A s \in Slots : ~KeyAdmitted(s)
          /\ KeyAnswered => (resp'.status = 401 /\ ~resp'.bound)]_vars

\* the key served a request, was revoked, and is then turned away although
\* its account is an active b2b account
C27_Witness ==
    /\ keyRevoked
    /\ usageLogs # << >>
    /\ account.type = "b2b" /\ account.status = "active"
    /\ resp.pc = "done" /\ resp.auth = "key" /\ resp.status = 401

\* task s leaves DB.DeductBalance in this step
Deducted(s) == rq[s].pc = "deduct" /\ rq'[s].pc # "deduct"

\* C28: an authenticated request whose account holds less than the route
\* price and has no billing customer is answered 402 Insufficient credits;
\* the handler is not invoked, no usage log is written and the balance is
\* unchanged
C28_InsufficientCredits ==
    [][\A s \in Slots :
          (Deducted(s) /\ balance < RoutePrice /\ ~account.customer) =>
             /\ resp'.pc = "done"
             /\ resp'.status = 402
             /\ resp'.note = "insufficient_credits"
             /\ resp'.bound
             /\ ~resp'.ran
             /\ resp'.paid = "none"
             /\ rq'[s] = IdleReq
             /\ UNCHANGED <<balance, usageLogs, creditPaid>>]_vars

\* an account with 500 micro-USDC and no billing customer was turned away
C28_Witness ==
    /\ resp.pc = "done" /\ resp.note = "insufficient_credits" /\ resp.status = 402
    /\ resp.bound
    /\ balance = 500 /\ deposited = 500
    /\ ~account.customer
    /\ usageLogs = << >>

\* task s leaves PaymentRouter.logUsage in this step, for a request that fell
\* back to metered billing
LoggedMetered(s) ==
    /\ rq[s].pc = "log"
    /\ rq[s].paid = "metered"
    /\ rq'[s].pc # "log"

\* C29: a request of an account that holds less than the route price and
\* has a billing customer is served, and exactly one usage log with
\* payment_method metered is recorded for it, whether the metered usage
\* report succeeded or not
C29_MeteredUsageLogged ==
    [][\A s \in Slots : LoggedMetered(s) =>
          /\ rq'[s].pc = "handler"
          /\ usageLogs' = Append(usageLogs, "metered")]_vars

\* ------------------------------------------------------ scanner client claims
\* C30: one ScanContent call sends at most two HTTP requests; the first
\* carries no X-Payment, the second carries it and is sent only after the
\* first was answered 402 and one payment envelope was built; a call whose
\* second request is answered 402 returns an error, and nothing more is sent
C30_AtMostTwoRequests ==
    /\ Len(wire) <= 2
    /\ call.envelopes <= 1
    /\ Len(wire) >= 1 => wire[1].xPayment = 0
    /\ Len(wire) = 2 =>
          /\ wire[2].xPayment # 0
          /\ wire[1].answered = 402
          /\ call.envelopes = 1
    /\ (Len(wire) = 2 /\ wire[2].answered = 402) =>
          (call.pc = "done" /\ call.err /\ ~call.result)

\* a call paid on its second request, was answered 402 again and failed
C30_Witness ==
    /\ call.pc = "done"
    /\ call.err
    /\ Len(wire) = 2
    /\ wire[1] = [xPayment |-> 0, answered |-> 402]
    /\ wire[2].xPayment # 0
    /\ wire[2].answered = 402

\* ------------------------------------------------------ HTTP client claims
\* C31: no client that transmits a payment follows a redirect: a 3xx answer
\* never makes a client send the payment to the redirect target
C31_NoPaymentToRedirectTarget == \A c \in HTTPClients : ~http[c].leaked /\ http[c].hops = 0

\* ------------------------------------------------------ payment response claims
\* C32: a response carries X-Payment-Response (status settled) only if the
\* facilitator's /settle succeeded for the request's payment, and the
\* payment_id in the header is the id the facilitator returned
C32_PaymentResponseOnlyIfSettled ==
    (resp.pc = "done" /\ resp.payResp # 0) =>
        /\ resp.settled
        /\ resp.payResp = FacilitatorPaymentID(resp.hdr.nonce)

\* ------------------------------------------------------ backoff claims
\* min(5s * 2^attempts, 5min), in seconds
CappedExponential(attempts) ==
    IF BaseDelay * 2^attempts > MaxDelay THEN MaxDelay ELSE BaseDelay * 2^attempts

TestBaseDelay(n) == IF n >= 4 THEN 30 ELSE 2 * 2^n

\* C34: calculateBackoff(n) lies in [b, 1.5*b] where b is 2s, 4s, 8s, 16s
\* for n = 0, 1, 2, 3 and 30s for every n >= 4
C34_BackoffAsTested ==
    bk.pc = "checked" =>
        /\ TestBaseDelay(bk.attempts) <= bk.backoff
        /\ 2 * bk.backoff <= 3 * TestBaseDelay(bk.attempts)

\* ------------------------------------------------------ scan cap claims
\* C35: with content scanning enabled, a non-empty response body of a
\* scannable content type is submitted to the scanner exactly when its size
\* is at most the scan cap of 1 MiB, a body of exactly 1 MiB included
C35_ScannedUpToCap ==
    (/\ MessageDone
     /\ mitm.upstream
     /\ scanning.Content.Enabled
     /\ mitm.respLen > 0
     /\ ShouldScanContentType(mitm.respType)
     /\ ~IsBinaryContentType(mitm.respType)) =>
        (mitm.respScan # "none" <=> mitm.respLen <= ScanCap)

\* ------------------------------------------------------ amount claims
\* C36: for the route priced p micro-USDC a payment passes verification only
\* if it carries p in on-chain atomic units, p * 10^(chainDecimals - 6),
\* which is 1000 for the 0.001-USDC content scan on a chain with 6 decimals
C36_AmountInAtomicUnits ==
    \A q \in {resp} \cup { rq[s] : s \in Slots } :
        (q.gate \in {"RequirePayment", "Middleware"} /\ Verified(q)) =>
            /\ q.hdr.amount = ToBigInt(RoutePrice, 6)
            /\ q.hdr.amount = 1000

\* ------------------------------------------------------ retry loop claims
\* C37: every payment the retry loop processes (status failed, attempts below
\* the maximum) has executed_at set, also a payment that failed before the
\* handler ran, so the backoff check never reads a missing executed_at
C37_ExecutedAtSet ==
    /\ \A k \in DOMAIN wbatch : wbatch[k].executedAt # NULL
    /\ \A i \in PendingIds(MaxRetryAttempts) : rows[i].executedAt # NULL

\* ------------------------------------------------------ expiration claims
\* row i of table rs was never executed and never sent to /settle
NeverServed(rs, i) ==
    /\ rs[i].executedAt = NULL
    /\ rs[i].result = 0
    /\ rs[i].attempts = 0
    /\ rs[i].facId = 0

\* C38: a payment whose status is expired never had its handler executed or
\* a /settle call and never gets one later: it stays expired, and a request
\* whose reservation expired between reserve and execute is not executed
C38_ExpiredNeverExecuted ==
    [][/\ \A i \in DOMAIN rows' :
             rows'[i].status = "expired" =>
                 /\ NeverServed(rows', i)
                 /\ \A s \in Slots :
                       rq'[s].row = i => rq'[s].pc \notin {"handler", "settle"}
                 /\ resp'.row = i => (~resp'.ran /\ ~resp'.calledSettle)
                 /\ ~(wpc' = "settle" /\ wcur' = i)
       /\ \A i \in DOMAIN rows :
             rows[i].status = "expired" => rows'[i] = rows[i]]_vars

\* a verified request found its reservation expired when it was about to
\* execute and was turned away; the handler never ran for the nonce
C38_Witness ==
    \E i \in DOMAIN rows :
        /\ rows[i].status = "expired"
        /\ resp.pc = "done"
        /\ resp.row = i
        /\ resp.status = 409
        /\ Verified(resp)
        /\ ~resp.ran
        /\ handlerRuns[rows[i].nonce] = 0

\* ------------------------------------------------------ webhook retry claims
\* C39: when the processing of a webhook event ends with a 5xx answer (the
\* deposit lookup or its completion failed) the event is not left recorded
\* as processed, so that a redelivery of the event id is processed and not
\* skipped as a duplicate
C39_FailedEventNotRecorded ==
    [][\A d \in Deliveries :
          (/\ hooks[d].pc \in {"route", "apply"}
           /\ hooks'[d].pc = "done"
           /\ hooks'[d].status >= 500) =>
              hooks'[d].event.id \notin processed']_vars

====
